---- MODULE Spec2Model ----
(***************************************************************************)
(* A model of the DeepSeek-V3 decoder layer of mistral.rs                  *)
(* (mistralrs-core/src/models/deepseek3.rs): the expert router MoeGate,    *)
(* the expert bank Moe and the MLA Attention block with its two backends.  *)
(*                                                                         *)
(* Real numbers (scores, biases, weights, the routed scaling factor) are   *)
(* fixed-point integers in units of 1/1000: 1000 is 1.0.  Mul and Div      *)
(* round towards minus infinity, the way a float operation rounds, so      *)
(* equalities "within epsilon" are stated with a tolerance of a few units. *)
(* Tensors of the last dimension are functions over 0..n-1 (the code's     *)
(* indices); a top-k result is a sequence of length k.                     *)
(***************************************************************************)
EXTENDS Integers, Sequences, FiniteSets

VARIABLES
    gate,       \* the MoeGate instance: its cfg fields and e_score_correction_bias
    logits,     \* the gating logits xs * weight^T of the token of the current call
    gout,       \* what MoeGate::forward returned for that token (and its group mask)
    gpc,        \* "idle" before a call of MoeGate::forward, "done" once it returned
    moe,        \* the Moe instance: the number of routed experts
    mcall,      \* the arguments of the current call of Moe::moe_infer
    my,         \* its accumulator y, one entry per token
    mi,         \* the index i of its loop over the experts
    mpc,        \* "idle", "loop" inside the expert loop, "done" once it returned
    mran,       \* the experts whose feed-forward ran in this call of moe_infer
    mfwd,       \* the call of Moe::forward in progress and its result
    attn,       \* the Attention instance: whether it holds a paged backend
    acall,      \* the arguments of the last call of Attention::forward
    run,        \* a decoding run: the layer's KV cache, the paged blocks, the outputs
    twin,       \* a second run fed the same calls but for one altered token
    altered,    \* the position of the token that differs in twin (-1: no twin)
    layer,      \* a DecoderLayer: its config, its construction, the blocks its
                \* forward calls ran
    gnew,       \* a call of MoeGate::new: the config, the checkpoint, the outcome
    anew,       \* a call of Attention::new: the config, the checkpoint, the outcome
    sampler,    \* the Sampler instance: temperature, top_k, top_p, min_p, penalties
    scall,      \* the arguments of the current call of Sampler::sample
    sres,       \* what Sampler::sample returned for that call
    qlin,       \* an UnquantLinear layer: its weight, its bias, its imatrix stats
    qbuf,       \* the bytes handed to UnquantLinear::deserialize
    qout,       \* what the last call on the layer or on the bytes returned
    qlog,       \* the calls of forward and of the stats tracking that returned
    qend        \* the calls of end_track_stats in progress: the matrix each computed

gvars == <<gate, logits, gout, gpc>>
mvars == <<moe, mcall, my, mi, mpc, mran, mfwd>>
avars == <<attn, acall, run, twin, altered>>
cvars == <<layer, gnew, anew>>
svars == <<sampler, scall, sres>>
qvars == <<qlin, qbuf, qout, qlog, qend>>
vars == <<gvars, mvars, avars, cvars, svars, qvars>>

(***************************************************************************)
(* Bounds of the model.                                                    *)
(***************************************************************************)
MaxLogit == 1       \* gating logits range over 0..MaxLogit
MaxTopK == 2        \* num_experts_per_tok ranges over 1..MaxTopK
MaxTokens == 2      \* the tokens (batch * sequence) of one call of moe_infer
MaxPos == 3         \* the positions of a decoding run
MaxLayer == 2       \* layer_idx, first_k_dense_replace, moe_layer_freq: 0..MaxLayer
MaxForwards == 2    \* the forward calls on one decoder layer
MaxCalls == 3       \* the calls made on one UnquantLinear

(***************************************************************************)
(* Fixed-point arithmetic.                                                 *)
(***************************************************************************)
Mul(a, b) == (a * b) \div 1000
Div(a, b) == (a * 1000) \div b

RECURSIVE SumFn(_, _)
SumFn(f, n) == IF n = 0 THEN 0 ELSE f[n - 1] + SumFn(f, n - 1)

RECURSIVE SumSeq(_)
SumSeq(s) == IF s = <<>> THEN 0 ELSE Head(s) + SumSeq(Tail(s))

MaxFn(f, n) == CHOOSE m \in {f[i] : i \in 0..(n - 1)} : \A i \in 0..(n - 1) : f[i] <= m

(***************************************************************************)
(* The score functions (candle_nn::ops).  Exp(d) is e^d for d <= 0.        *)
(***************************************************************************)
Exp(d) ==
    CASE d >= 0  -> 1000
      [] d = -1  -> 368
      [] d = -2  -> 135
      [] d = -3  -> 50
      [] d = -4  -> 18
      [] d = -5  -> 7
      [] d = -6  -> 2
      [] d = -7  -> 1
      [] OTHER   -> 0

\* softmax over the last dimension, computed as candle does: exp(x - max) / sum
SoftmaxLastDim(l, n) ==
    LET m == MaxFn(l, n)
        e == [i \in 0..(n - 1) |-> Exp(l[i] - m)]
        s == SumFn(e, n)
    IN  [i \in 0..(n - 1) |-> Div(e[i], s)]

\* sigmoid(x) = 1 / (1 + exp(-x))
Sigmoid(x) ==
    IF x >= 0 THEN Div(1000, 1000 + Exp(-x))
              ELSE Div(Exp(x), 1000 + Exp(x))

(***************************************************************************)
(* ops.rs: TopKLastDimOp.  arg_sort_last_dim orders equal values in an     *)
(* order that depends on the backend (a stable sort on the CPU, a bitonic  *)
(* sort on the GPU), so the sort is the set of permutations that are       *)
(* sorted.                                                                 *)
(***************************************************************************)
Perms(n) ==
    {p \in [1..n -> 0..(n - 1)] : \A i, j \in 1..n : i # j => p[i] # p[j]}

ArgSortLastDim(v, n, asc) ==
    {p \in Perms(n) :
        \A i \in 1..(n - 1) :
            IF asc THEN v[p[i]] <= v[p[i + 1]] ELSE v[p[i]] >= v[p[i + 1]]}

\* topk: sort descending, narrow to the first k, gather the values.
\* The empty set stands for the error of narrow when k > n.
TopK(v, n, k) ==
    IF k > n THEN {}
    ELSE {[indices |-> [j \in 1..k |-> p[j]],
           values  |-> [j \in 1..k |-> v[p[j]]]] : p \in ArgSortLastDim(v, n, FALSE)}

\* topk_unsorted: topk, then the k indices reordered ascending
TopKUnsorted(v, n, k) ==
    UNION {
        LET byIdx == [j \in 0..(k - 1) |-> r.indices[j + 1]]
        IN  {[indices |-> [j \in 1..k |-> r.indices[q[j] + 1]],
              values  |-> [j \in 1..k |-> r.values[q[j] + 1]]] :
                 q \in ArgSortLastDim(byIdx, k, TRUE)}
        : r \in TopK(v, n, k)}

(***************************************************************************)
(* MoeGate::forward.  g is the gate (cfg fields, top_k, n_routed_experts,  *)
(* e_score_correction_bias); the token's row of logits is l.  Every        *)
(* Select operator yields the set of selections the policy can produce     *)
(* (more than one where equal values are ordered by the backend), as       *)
(* records [ok, w, idx, mask]: w and idx are topk_weight and topk_idx      *)
(* before normalisation, mask is the policy's group_mask (<<>> when it has *)
(* none), and ok = FALSE is the Err return.                                *)
(***************************************************************************)
\* Option<T>: None is the empty set, Some(x) the singleton of x
None == {}
Some(x) == {x}
Unwrap(o) == CHOOSE x \in o : TRUE

ErrSel == [ok |-> FALSE, w |-> <<>>, idx |-> <<>>, mask |-> <<>>]

Scores(g, l) ==
    IF g.scoring_func = "softmax"
    THEN SoftmaxLastDim(l, g.n_routed_experts)
    ELSE [i \in 0..(g.n_routed_experts - 1) |-> Sigmoid(l[i])]

\* TopkMethod::Greedy
SelectGreedy(g, scores) ==
    IF g.top_k > g.n_routed_experts THEN {ErrSel}
    ELSE {[ok |-> TRUE, w |-> r.values, idx |-> r.indices, mask |-> <<>>] :
            r \in TopKUnsorted(scores, g.n_routed_experts, g.top_k)}

\* zeros_like(group_scores).scatter_add(group_idx, ones, 1) with every index in range
ScatterAdd(group_idx, n_group) ==
    [grp \in 0..(n_group - 1) |->
        Cardinality({j \in DOMAIN group_idx : group_idx[j] = grp})]

\* group_mask.unsqueeze(-1).expand((n, n_group, e / n_group)).reshape((n, ())):
\* group_mask counts the additions of 1.0, score_mask holds them as reals
ScoreMask(group_mask, n_group, gsz) ==
    [i \in 0..(n_group * gsz - 1) |-> 1000 * group_mask[i \div gsz]]

\* reshape((n, n_group, ())).topk(2).values.sum(-1): the sum of the two
\* largest values of each group (the same for every order of equal values)
GroupScoresTop2(sfc, n_group, gsz) ==
    [grp \in 0..(n_group - 1) |->
        LET slice == [j \in 0..(gsz - 1) |-> sfc[grp * gsz + j]]
            r == CHOOSE r \in TopK(slice, gsz, 2) : TRUE
        IN  r.values[1] + r.values[2]]

\* scores.gather(&topk_idx, 1)
Gather(scores, topk_idx) == [j \in DOMAIN topk_idx |-> scores[topk_idx[j]]]

\* mutant: the weights gathered from the bias-corrected scores
NoAuxTcWeight_Corrected(scores, scores_for_choice, topk_idx) ==
    Gather(scores_for_choice, topk_idx)

\* line 518: the weights NoAuxTc returns for the chosen indices
NoAuxTcWeight(scores, scores_for_choice, topk_idx) ==
    Gather(scores, topk_idx)

\* line 516: scores_for_choice.broadcast_mul(&score_mask)
NoAuxTcTmpScores(scores_for_choice, score_mask, e) ==
    [i \in 0..(e - 1) |-> Mul(scores_for_choice[i], score_mask[i])]

\* line 517: tmp_scores.topk(self.top_k)
NoAuxTcTopK(g, tmp_scores) == TopK(tmp_scores, g.n_routed_experts, g.top_k)

\* TopkMethod::NoAuxTc
SelectNoAuxTc(g, scores) ==
    LET e   == g.n_routed_experts
        gsz == e \div g.n_group
    IN  IF \/ g.e_score_correction_bias = None          \* bail!
           \/ e % g.n_group # 0                         \* reshape((n, n_group, ()))
           \/ gsz < 2                                   \* topk(2)
           \/ g.topk_group > g.n_group                  \* topk(topk_group)
           \/ g.top_k > e                               \* topk(top_k)
        THEN {ErrSel}
        ELSE
        LET bias == Unwrap(g.e_score_correction_bias)
            sfc == [i \in 0..(e - 1) |-> scores[i] + bias[i]]
            group_scores == GroupScoresTop2(sfc, g.n_group, gsz)
        IN  UNION {
              LET group_mask == ScatterAdd(gi.indices, g.n_group)
                  score_mask == ScoreMask(group_mask, g.n_group, gsz)
                  tmp_scores == NoAuxTcTmpScores(sfc, score_mask, e)
              IN  {[ok   |-> TRUE,
                    w    |-> NoAuxTcWeight(scores, sfc, r.indices),
                    idx  |-> r.indices,
                    mask |-> group_mask] : r \in NoAuxTcTopK(g, tmp_scores)}
              : gi \in TopK(group_scores, g.n_group, g.topk_group)}

\* Tensor::affine(mul, add) on a U8 tensor: mul and add are cast to u8 first
\* (T::from_f64, an `as` cast, which saturates: a negative factor becomes 0),
\* then v * mul + add is computed in u8
AffineU8(v, mul, add) ==
    LET cast(x) == IF x < 0 THEN 0 ELSE IF x > 255 THEN 255 ELSE x
    IN  (v * cast(mul) + cast(add)) % 256

\* 1. - score_mask.ne(0.): ne gives a U8 tensor (1 where the mask is set) and
\* f64 - &Tensor is rhs.affine(-1., lhs), so the factor -1 is cast to 0 and
\* the result is 1 for every expert, not the inverted mask
InvertMask(m) == [i \in DOMAIN m |-> AffineU8(IF m[i] # 0 THEN 1 ELSE 0, -1, 1)]

\* layers_masker::masked_fill(xs, mask, value): value where mask is set, else xs
MaskedFill(xs, mask, value) ==
    [i \in DOMAIN xs |-> IF mask[i] # 0 THEN value ELSE xs[i]]

\* lines 526-534: the group_mask of GroupLimitedGreedy.  group_idx holds the
\* indices of the top topk_group EXPERTS (topk_unsorted of scores, not of
\* group_scores) and they index the n_group entries of group_mask.  An index
\* >= n_group is out of range: the CPU scatter_add returns Err, a GPU kernel
\* writes unchecked outside the token's row, which leaves the row with the
\* in-range additions only.  The result is the set of [ok, mask] outcomes.
GroupLimitedGreedyMask(group_idx, n_group) ==
    LET inRange == [j \in {j \in DOMAIN group_idx : group_idx[j] < n_group}
                       |-> group_idx[j]]
    IN  IF DOMAIN inRange = DOMAIN group_idx
        THEN {[ok |-> TRUE, mask |-> ScatterAdd(group_idx, n_group)]}
        ELSE {[ok |-> FALSE, mask |-> <<>>],
              [ok |-> TRUE, mask |-> ScatterAdd(inRange, n_group)]}

\* line 546: masked_fill(&score_mask, &(1. - &score_mask.ne(0.)?)?, 0.): the
\* tensor that is filled is score_mask itself, not scores, and the mask is set
\* for every expert, so tmp_scores is 0 everywhere
GroupLimitedGreedyTmpScores(scores, score_mask) ==
    MaskedFill(score_mask, InvertMask(score_mask), 0)

\* TopkMethod::GroupLimitedGreedy
SelectGroupLimitedGreedy(g, scores) ==
    LET e   == g.n_routed_experts
        gsz == e \div g.n_group
    IN  IF \/ e % g.n_group # 0                         \* reshape((n, n_group, ()))
           \/ g.topk_group > e                          \* topk_unsorted(topk_group)
           \/ g.top_k > e                               \* topk_unsorted(top_k)
        THEN {ErrSel}
        ELSE
        UNION {
          UNION {
            IF ~gm.ok THEN {ErrSel}
            ELSE
            LET score_mask == ScoreMask(gm.mask, g.n_group, gsz)
                tmp_scores == GroupLimitedGreedyTmpScores(scores, score_mask)
            IN  {[ok |-> TRUE, w |-> r.values, idx |-> r.indices, mask |-> gm.mask] :
                    r \in TopKUnsorted(tmp_scores, e, g.top_k)}
            : gm \in GroupLimitedGreedyMask(gi.indices, g.n_group)}
          : gi \in TopKUnsorted(scores, e, g.topk_group)}

\* lines 477-550
Select(g, scores) ==
    CASE g.topk_method = "Greedy"  -> SelectGreedy(g, scores)
      [] g.topk_method = "NoAuxTc" -> SelectNoAuxTc(g, scores)
      [] OTHER                     -> SelectGroupLimitedGreedy(g, scores)

\* topk_weight / (topk_weight.sum_keepdim(-1) + 1e-20): the guard 1e-20 is
\* below the fixed-point unit, and 0 / 1e-20 is 0
Normalize(w) ==
    LET s == SumSeq(w)
    IN  [j \in DOMAIN w |-> IF s = 0 THEN 0 ELSE Div(w[j], s)]

\* lines 552-558: the optional renormalisation, then the scaling factor
ScaleWeights(g, w) ==
    LET n == IF g.top_k > 1 /\ g.norm_topk_prob THEN Normalize(w) ELSE w
    IN  [j \in DOMAIN n |-> Mul(n[j], g.routed_scaling_factor)]

ErrResult ==
    [status |-> "err", topk_idx |-> <<>>, topk_weight |-> <<>>, group_mask |-> <<>>]

\* the results MoeGate::forward can return for a token whose logits are l
MoeGateForward(g, l) ==
    {IF s.ok
     THEN [status |-> "ok", topk_idx |-> s.idx,
           topk_weight |-> ScaleWeights(g, s.w), group_mask |-> s.mask]
     ELSE ErrResult : s \in Select(g, Scores(g, l))}

(***************************************************************************)
(* MoeGate::new and the configurations the model ranges over.              *)
(***************************************************************************)
TopkMethods == {"Greedy", "NoAuxTc", "GroupLimitedGreedy"}
ScoringFuncs == {"softmax", "sigmoid"}

\* (n_group, topk_group) of a configuration with 4 routed experts; the
\* Greedy policy reads neither
Groupings(method) ==
    IF method = "Greedy" THEN {<<1, 1>>} ELSE {<<1, 1>>, <<2, 1>>, <<2, 2>>}

Cfgs ==
    UNION {
        {[topk_method           |-> m,
          scoring_func          |-> sf,
          n_routed_experts      |-> 4,
          n_group               |-> gr[1],
          topk_group            |-> gr[2],
          num_experts_per_tok   |-> k,
          norm_topk_prob        |-> nrm,
          routed_scaling_factor |-> rsf] :
            sf \in ScoringFuncs, gr \in Groupings(m), k \in 1..MaxTopK,
            nrm \in BOOLEAN, rsf \in {1000, 2500}}
        : m \in TopkMethods}

\* the values of one entry of e_score_correction_bias
BiasValues == {-600, 0}

Biases(cfg) ==
    IF cfg.topk_method = "NoAuxTc"
    THEN [0..(cfg.n_routed_experts - 1) -> BiasValues]
    ELSE {<<>>}

\* MoeGate::new: bias is the tensor e_score_correction_bias of the checkpoint
MoeGateNew(cfg, bias) ==
    [topk_method             |-> cfg.topk_method,
     scoring_func            |-> cfg.scoring_func,
     n_group                 |-> cfg.n_group,
     topk_group              |-> cfg.topk_group,
     norm_topk_prob          |-> cfg.norm_topk_prob,
     routed_scaling_factor   |-> cfg.routed_scaling_factor,
     top_k                   |-> cfg.num_experts_per_tok,
     n_routed_experts        |-> cfg.n_routed_experts,
     e_score_correction_bias |-> IF cfg.topk_method = "NoAuxTc" THEN Some(bias) ELSE None]

LogitRows(e) == [0..(e - 1) -> 0..MaxLogit]

NoResult ==
    [status |-> "none", topk_idx |-> <<>>, topk_weight |-> <<>>, group_mask |-> <<>>]

(***************************************************************************)
(* The router as a state machine: a gate is built, then forward is called  *)
(* on one token after another.                                             *)
(***************************************************************************)
GateIdle ==
    /\ logits = <<>>
    /\ gout = NoResult
    /\ gpc = "idle"

GateInit ==
    /\ \E cfg \in Cfgs : \E bias \in Biases(cfg) : gate = MoeGateNew(cfg, bias)
    /\ GateIdle

\* one call of MoeGate::forward on a token
GateForward ==
    /\ gpc = "idle"
    /\ \E l \in LogitRows(gate.n_routed_experts) :
          /\ logits' = l
          /\ gout' \in MoeGateForward(gate, l)
    /\ gpc' = "done"
    /\ UNCHANGED <<gate, mvars, avars, cvars, svars, qvars>>

\* the caller takes the result; the gate keeps no state between calls
GateReturn ==
    /\ gpc = "done"
    /\ gpc' = "idle"
    /\ logits' = <<>>
    /\ gout' = NoResult
    /\ UNCHANGED <<gate, mvars, avars, cvars, svars, qvars>>

GateNext == GateForward \/ GateReturn

(***************************************************************************)
(* Moe::moe_infer.  xs, topk_ids and topk_weight are functions over the    *)
(* tokens 0..n-1; a row of topk_ids or topk_weight is a sequence of top_k  *)
(* slots.  The hidden dimension is one number per token.                   *)
(***************************************************************************)

\* Mlp::forward of routed expert i on a row x: the experts are independent
\* feed-forward blocks, here pairwise different functions of x
Expert(i, x) == (i + 2) * x + i

\* topk_ids.flatten_all().bincount(experts.len())
Bincount(topk_ids, n, k, len) ==
    [i \in 0..(len - 1) |->
        Cardinality({ts \in (0..(n - 1)) \X (1..k) : topk_ids[ts[1]][ts[2]] = i})]

\* topk_ids.eq(i).nonzero(): the (token, slot) pairs that hold i, in row-major order
NonZeroEq(topk_ids, n, k, i) ==
    LET hits == {ts \in (0..(n - 1)) \X (1..k) : topk_ids[ts[1]][ts[2]] = i}
        rank(ts) == Cardinality({o \in hits : o[1] * k + o[2] < ts[1] * k + ts[2]})
    IN  [r \in 1..Cardinality(hits) |-> CHOOSE ts \in hits : rank(ts) = r - 1]

\* y.index_add(idx, src, 0): row r of src is added to row idx[r] of y, one row
\* after the other
RECURSIVE IndexAdd(_, _, _)
IndexAdd(y, idx, src) ==
    IF idx = <<>> THEN y
    ELSE IndexAdd([y EXCEPT ![Head(idx)] = @ + Head(src)], Tail(idx), Tail(src))

\* mutant: the expert's rows overwrite the rows of y instead of being added
MoeInferExpert_Overwrite(y, call, n, k, i) ==
    LET idx_top == NonZeroEq(call.topk_ids, n, k, i)
    IN  [t \in DOMAIN y |->
            IF \E r \in DOMAIN idx_top : idx_top[r][1] = t
            THEN LET r == CHOOSE r \in DOMAIN idx_top : idx_top[r][1] = t
                 IN  Expert(i, call.xs[t]) * call.topk_weight[t][idx_top[r][2]]
            ELSE y[t]]

\* lines 622-637: the body of the loop for expert i when counts[i] > 0
MoeInferExpert(y, call, n, k, i) ==
    LET idx_top == NonZeroEq(call.topk_ids, n, k, i)
        idx == [r \in DOMAIN idx_top |-> idx_top[r][1]]
        top == [r \in DOMAIN idx_top |-> idx_top[r][2]]
        \* expert.forward(xs.index_select(idx, 0)) * topk_weight[idx].gather(top)
        src == [r \in DOMAIN idx_top |->
                   Expert(i, call.xs[idx[r]]) * call.topk_weight[idx[r]][top[r]]]
    IN  IndexAdd(y, idx, src)

Tokens(call) == 0..(call.n - 1)

\* the routing decisions of n tokens with k slots over len experts: topk_ids
\* and topk_weight are (n, k) tensors (rank 2) with any ids in range; the weights are pairwise distinct, so that every (token, slot)
\* term of the output is recognisable
Calls(len) ==
    UNION {
        {[n |-> MaxTokens, k |-> k, rank |-> 2,
          xs |-> [t \in 0..(MaxTokens - 1) |-> t + 1],
          topk_ids |-> ids,
          topk_weight |->
              [t \in 0..(MaxTokens - 1) |-> [sl \in 1..k |-> 1 + sl + k * t]]] :
            ids \in [0..(MaxTokens - 1) -> [1..k -> 0..(len - 1)]]}
        : k \in 1..MaxTopK}

NoCall ==
    [n |-> 0, k |-> 0, rank |-> 2, xs |-> <<>>, topk_ids |-> <<>>, topk_weight |-> <<>>]

NoForward == [pc |-> "idle", y |-> <<>>]

MoeIdle ==
    /\ moe = [n_experts |-> 3, shared_experts |-> FALSE]
    /\ mcall = NoCall
    /\ my = <<>>
    /\ mi = 0
    /\ mpc = "idle"
    /\ mran = {}
    /\ mfwd = NoForward

\* line 614: moe_infer is entered, y = xs.zeros_like()
MoeInferBegin ==
    /\ mpc = "idle"
    /\ \E call \in Calls(moe.n_experts) :
          /\ mcall' = call
          /\ my' = [t \in Tokens(call) |-> 0]
    /\ mi' = 0
    /\ mpc' = "loop"
    /\ mran' = {}
    /\ UNCHANGED <<moe, mfwd, gvars, avars, cvars, svars, qvars>>

\* lines 618-621: an expert nothing is routed to is skipped
MoeInferSkip ==
    /\ mpc = "loop"
    /\ mi < moe.n_experts
    /\ Bincount(mcall.topk_ids, mcall.n, mcall.k, moe.n_experts)[mi] = 0
    /\ mi' = mi + 1
    /\ UNCHANGED <<moe, mcall, my, mpc, mran, mfwd, gvars, avars, cvars, svars, qvars>>

\* mutant: the count of the expert's tokens is not looked at
MoeInferRun_NoCountCheck ==
    /\ mpc = "loop"
    /\ mi < moe.n_experts
    /\ mran' = mran \cup {mi}
    /\ my' = MoeInferExpert(my, mcall, mcall.n, mcall.k, mi)
    /\ mi' = mi + 1
    /\ UNCHANGED <<moe, mcall, mpc, mfwd, gvars, avars, cvars, svars, qvars>>

\* lines 622-637: the expert runs on its tokens and its output is added to y.
\* With (bs, seq_len, k) routing tensors (rank 3) the rows of nonzero() are
\* (batch, position, slot): expert.forward runs on the rows picked by the
\* batch indices, then gather of the rank-3 weights with a rank-2 index is
\* a shape error
MoeInferRun ==
    /\ mpc = "loop"
    /\ mi < moe.n_experts
    /\ Bincount(mcall.topk_ids, mcall.n, mcall.k, moe.n_experts)[mi] # 0
    /\ mran' = mran \cup {mi}
    /\ IF mcall.rank = 2
       THEN /\ my' = MoeInferExpert(my, mcall, mcall.n, mcall.k, mi)
            /\ mi' = mi + 1
            /\ mpc' = mpc
       ELSE /\ mpc' = "err"
            /\ UNCHANGED <<my, mi>>
    /\ UNCHANGED <<moe, mcall, mfwd, gvars, avars, cvars, svars, qvars>>

\* line 640: Ok(y)
MoeInferEnd ==
    /\ mpc = "loop"
    /\ mi = moe.n_experts
    /\ mpc' = "done"
    /\ UNCHANGED <<moe, mcall, my, mi, mran, mfwd, gvars, avars, cvars, svars, qvars>>

MoeNext == MoeInferBegin \/ MoeInferSkip \/ MoeInferRun \/ MoeInferEnd

(***************************************************************************)
(* Moe::forward: the gate routes the tokens of xs (batch 1, MaxTokens      *)
(* positions), moe_infer runs the routed experts, the shared experts are   *)
(* added.  Weights are in units of 1/1000, so is the output y.             *)
(***************************************************************************)

\* Mlp::forward of the shared experts on a row x
SharedExpert(x) == 11 * x + 7

\* the configurations of the layer: one or two routed experts, every policy,
\* one group
MoeCfgs ==
    UNION {
        {[topk_method           |-> m,
          scoring_func          |-> sf,
          n_routed_experts      |-> e,
          n_group               |-> 1,
          topk_group            |-> 1,
          num_experts_per_tok   |-> k,
          norm_topk_prob        |-> TRUE,
          routed_scaling_factor |-> 2500] :
            m \in TopkMethods, sf \in ScoringFuncs,
            k \in {k \in 1..MaxTopK : k <= e}}
        : e \in {1, 2}}

\* Moe::new: the experts, the optional shared experts and the gate
MoeNew(cfg, shared) == [n_experts |-> cfg.n_routed_experts, shared_experts |-> shared]

\* the rank of the tensors MoeGate::forward returns: GroupLimitedGreedy
\* reshapes its mask to (bs, seq_len, e) at line 543, the other policies
\* work on (bs * seq_len, e)
GateOutputRank(g) == IF g.topk_method = "GroupLimitedGreedy" THEN 3 ELSE 2

\* lines 644-650: the gate is called on xs, then moe_infer is entered with
\* the flattened xs; an Err of the gate is returned
MoeForwardGate ==
    /\ mfwd.pc = "idle"
    /\ mpc = "idle"
    /\ \E l \in [0..(MaxTokens - 1) -> LogitRows(gate.n_routed_experts)] :
       \E r \in [0..(MaxTokens - 1) ->
                    UNION {MoeGateForward(gate, row) : row \in LogitRows(gate.n_routed_experts)}] :
          /\ \A t \in 0..(MaxTokens - 1) : r[t] \in MoeGateForward(gate, l[t])
          /\ logits' = l
          /\ IF \E t \in 0..(MaxTokens - 1) : r[t].status # "ok"
             THEN /\ mfwd' = [pc |-> "err", y |-> <<>>]
                  /\ UNCHANGED <<mcall, my, mi, mpc, mran>>
             ELSE /\ mfwd' = [pc |-> "infer", y |-> <<>>]
                  /\ mcall' = [n |-> MaxTokens, k |-> gate.top_k,
                               rank |-> GateOutputRank(gate),
                               xs |-> [t \in 0..(MaxTokens - 1) |-> t + 1],
                               topk_ids |-> [t \in 0..(MaxTokens - 1) |-> r[t].topk_idx],
                               topk_weight |->
                                   [t \in 0..(MaxTokens - 1) |-> r[t].topk_weight]]
                  /\ my' = [t \in 0..(MaxTokens - 1) |-> 0]
                  /\ mi' = 0
                  /\ mpc' = "loop"
                  /\ mran' = {}
    /\ UNCHANGED <<gate, gout, gpc, moe, avars, cvars, svars, qvars>>

\* lines 648-655: moe_infer returned; its Err is returned, else the shared
\* experts run on the input and their output is added
MoeForwardReturn ==
    /\ mfwd.pc = "infer"
    /\ mpc \in {"done", "err"}
    /\ mfwd' = IF mpc = "err" THEN [pc |-> "err", y |-> <<>>]
               ELSE [pc |-> "ok",
                     y |-> [t \in Tokens(mcall) |->
                              IF moe.shared_experts
                              THEN my[t] + 1000 * SharedExpert(mcall.xs[t])
                              ELSE my[t]]]
    /\ UNCHANGED <<moe, mcall, my, mi, mpc, mran, gvars, avars, cvars, svars, qvars>>

MoeForwardNext ==
    MoeForwardGate \/ MoeInferSkip \/ MoeInferRun \/ MoeInferEnd \/ MoeForwardReturn

(***************************************************************************)
(* Attention::forward.  A token of the sequence is its content (an         *)
(* embedding, one of Tok); the rows q, k and v of a position are functions *)
(* of the content and, through the rotary embedding, of the position, so a *)
(* row is the record [pos, tok].  An attention output row is the record    *)
(* [q, kv] of the query row and the set of key/value rows the query        *)
(* attends to: the softmax-weighted sum is a function of exactly these.    *)
(***************************************************************************)
Tok == {0, 1}

\* lines 255-309: the rows of the chunk xs, whose first position is offset
Rows(xs, offset) == [r \in 1..Len(xs) |-> [pos |-> offset + r - 1, tok |-> xs[r]]]

\* CausalMasker::make_causal_mask_matrix: no mask for a single position, else
\* the (tgt_len, tgt_len + past_kv_len) matrix that lets row r see the columns
\* up to past_kv_len + r
MakeCausalMaskMatrix(tgt_len, past_kv_len) ==
    IF tgt_len = 1 THEN None ELSE Some([tgt |-> tgt_len, past |-> past_kv_len])

\* Sdpa::run_attention(q, k, v, mask): the mask is added to the
\* (queries, keys) attention weights, an Err when the shapes differ
SdpaRunAttention(q, kv, mask) ==
    IF mask = None
    THEN [status |-> "ok",
          out |-> [r \in 1..Len(q) |->
                      [q |-> q[r], kv |-> {kv[p] : p \in 1..Len(kv)}]]]
    ELSE LET m == Unwrap(mask)
         IN  IF m.tgt # Len(q) \/ m.tgt + m.past # Len(kv)
             THEN [status |-> "err", out |-> <<>>]
             ELSE [status |-> "ok",
                   out |-> [r \in 1..Len(q) |->
                               [q |-> q[r],
                                kv |-> {kv[p] : p \in 1..(m.past + r)}]]]

\* PagedAttention::forward(q, k, v, mask, key_cache, value_cache, metadata):
\* with a mask (a prompt) the attention is Sdpa over the chunk; then, with
\* caches, the rows of the chunk are written to the blocks; without a mask (a
\* decoding step) the attention is over the blocks of the sequence
PagedAttentionForward(q, kv, mask, caches, blocks) ==
    LET att == SdpaRunAttention(q, kv, mask)
        written == IF caches THEN blocks \o kv ELSE blocks
    IN  IF mask # None
        THEN IF att.status = "ok"
             THEN [status |-> "ok", out |-> att.out, blocks |-> written]
             ELSE [status |-> "err", out |-> <<>>, blocks |-> blocks]
        ELSE [status |-> "ok", out |-> SdpaRunAttention(q, written, None).out,
              blocks |-> written]

\* the state of a run after a failed call
Failed(st, how) == [st EXCEPT !.status = how]

\* the state of a run after a call that returned the rows out
Succeeded(st, out) ==
    [st EXCEPT !.status = "ok", !.outs = @ \o out, !.pos = @ + Len(out)]

\* mutant: the paged path also appends to the incremental cache
PagedWithMetadata_AlsoAppends(st, rows, mask) ==
    LET res == PagedAttentionForward(rows, rows, mask, TRUE, st.blocks)
        st1 == [st EXCEPT !.blocks = res.blocks, !.paged_calls = @ + 1,
                          !.kv_cache = @ \o rows]
    IN  IF res.status = "ok" THEN Succeeded(st1, res.out) ELSE Failed(st1, "err")

\* lines 313-329: the paged backend with the caller's metadata
PagedWithMetadata(st, rows, mask) ==
    LET res == PagedAttentionForward(rows, rows, mask, TRUE, st.blocks)
        st1 == [st EXCEPT !.blocks = res.blocks, !.paged_calls = @ + 1]
    IN  IF res.status = "ok" THEN Succeeded(st1, res.out) ELSE Failed(st1, "err")

\* mutant: the sanity check of the mask is missing
PagedNoMetadata_NoAssert(st, rows, mask) ==
    LET res == PagedAttentionForward(rows, rows, mask, FALSE, st.blocks)
        st1 == [st EXCEPT !.paged_calls = @ + 1]
    IN  IF res.status = "ok" THEN Succeeded(st1, res.out) ELSE Failed(st1, "err")

\* lines 330-351: the paged backend with dummy metadata (no caches)
PagedNoMetadata(st, rows, mask) ==
    IF mask = None
    THEN Failed(st, "panic")                    \* assert!(attention_mask.is_some())
    ELSE LET res == PagedAttentionForward(rows, rows, mask, FALSE, st.blocks)
             st1 == [st EXCEPT !.paged_calls = @ + 1]
         IN  IF res.status = "ok" THEN Succeeded(st1, res.out) ELSE Failed(st1, "err")

\* mutant: the mask is not handed to Sdpa
CacheAppend_NoMask(st, rows, mask) ==
    LET all == st.kv_cache \o rows
        res == SdpaRunAttention(rows, all, None)
        st1 == [st EXCEPT !.kv_cache = all]
    IN  IF res.status = "ok" THEN Succeeded(st1, res.out) ELSE Failed(st1, "err")

\* lines 353-364: kv_cache.append, then Sdpa over the whole cache
CacheAppend(st, rows, mask) ==
    LET all == st.kv_cache \o rows
        res == SdpaRunAttention(rows, all, mask)
        st1 == [st EXCEPT !.kv_cache = all]
    IN  IF res.status = "ok" THEN Succeeded(st1, res.out) ELSE Failed(st1, "err")

\* lines 314-316 and 336-338: v.pad_with_zeros(-1, 0, q_head_dim - v_head_dim).
\* The amount is a usize: with v_head_dim > q_head_dim the subtraction panics
\* in a build with overflow checks and wraps to 2^64 - d in one without,
\* and a tensor of that width cannot be allocated
PadWithZeros(a) ==
    IF a.v_head_dim <= a.q_head_dim THEN "ok"
    ELSE IF a.overflow_checks THEN "panic" ELSE "err"

\* cfg.num_attention_heads of the layers of the model
NumAttentionHeads == 2

\* the indices of a tensor of rank 3 and the offset of an index in its
\* contiguous (row-major) storage; the batch dimension, of size 1, is left out
Idx3(shape) == (0..(shape[1] - 1)) \X (0..(shape[2] - 1)) \X (0..(shape[3] - 1))

Flat3(shape, i) == (i[1] * shape[2] + i[2]) * shape[3] + i[3]

\* Sdpa::run_attention(q, k, v, ..): the output has the shape of q with the
\* width of v, (heads, seq_len, width); the element at (h, s, d) is the
\* attention output of head h at position s of the chunk, dimension d
SdpaOutput(heads, seq_len, width) ==
    [shape |-> <<heads, seq_len, width>>,
     at    |-> [i \in Idx3(<<heads, seq_len, width>>) |->
                   [h |-> i[1], s |-> i[2], d |-> i[3]]]]

\* PagedAttention::forward: with a mask the result is the one of Sdpa; without
\* one it is the output of the paged kernel, (tokens, heads, width)
PagedOutput(mask, heads, seq_len, width) ==
    IF mask # None
    THEN SdpaOutput(heads, seq_len, width)
    ELSE [shape |-> <<seq_len, heads, width>>,
          at    |-> [i \in Idx3(<<seq_len, heads, width>>) |->
                        [h |-> i[2], s |-> i[1], d |-> i[3]]]]

\* Tensor::narrow(D::Minus1, 0, len)
Narrow(t, len) ==
    [shape |-> <<t.shape[1], t.shape[2], len>>,
     at    |-> [i \in Idx3(<<t.shape[1], t.shape[2], len>>) |-> t.at[i]]]

\* Tensor::transpose(1, 2): the two axes after the batch change places
Transpose12(t) ==
    [shape |-> <<t.shape[2], t.shape[1], t.shape[3]>>,
     at    |-> [i \in Idx3(<<t.shape[2], t.shape[1], t.shape[3]>>) |->
                   t.at[<<i[2], i[1], i[3]>>]]]

\* Tensor::reshape((bs, seq_len, ())): the elements keep their order in the
\* contiguous storage, the last dimension is what is left
Reshape(t, seq_len) ==
    LET cols == (t.shape[1] * t.shape[2] * t.shape[3]) \div seq_len
    IN  [shape |-> <<seq_len, cols>>,
         at    |-> [i \in (0..(seq_len - 1)) \X (0..(cols - 1)) |->
                       LET j == CHOOSE j \in Idx3(t.shape) :
                                   Flat3(t.shape, j) = i[1] * cols + i[2]
                       IN  t.at[j]]]

\* lines 311-365: attn_out of a call that succeeds; the paged backend is given
\* v padded to q_head_dim and its output is narrowed to v_head_dim
AttnOut(a, call) ==
    LET seq_len == Len(call.xs)
    IN  IF a.paged_attn
        THEN Narrow(PagedOutput(call.mask, NumAttentionHeads, seq_len, a.q_head_dim),
                    a.v_head_dim)
        ELSE SdpaOutput(NumAttentionHeads, seq_len, a.v_head_dim)

\* mutant: the reshape without the transpose on both branches
OProjInput_NoTranspose(a, call) == Reshape(AttnOut(a, call), Len(call.xs))

\* lines 367-371: the tensor handed to o_proj
OProjInput(a, call) ==
    IF call.mask # None
    THEN Reshape(Transpose12(AttnOut(a, call)), Len(call.xs))
    ELSE Reshape(AttnOut(a, call), Len(call.xs))

\* lines 311-365: the backend is the one fixed in Attention::new
AttentionBackend(a, st, call) ==
    LET rows == Rows(call.xs, call.offset)
    IN  IF a.paged_attn
        THEN IF call.metadata
             THEN IF PadWithZeros(a) # "ok"
                  THEN Failed(st, PadWithZeros(a))
                  ELSE PagedWithMetadata(st, rows, call.mask)
             ELSE IF call.mask # None /\ PadWithZeros(a) # "ok"
                  THEN Failed(st, PadWithZeros(a))
                  ELSE PagedNoMetadata(st, rows, call.mask)
        ELSE CacheAppend(st, rows, call.mask)

\* lines 255-373: Attention::forward; proj is the tensor the last call that
\* returned Ok handed to the output projection
AttentionForward(a, st, call) ==
    LET st1 == AttentionBackend(a, st, call)
    IN  IF st1.status = "ok"
        THEN [st1 EXCEPT !.proj = OProjInput(a, call)]
        ELSE st1

\* the head dimensions of the config
HeadDimCfgs ==
    [qk_nope_head_dim : {1, 2}, qk_rope_head_dim : {1}, v_head_dim : {1, 2, 4}]

\* lines 157-242, Ok(Self { .. }): q_head_dim = qk_rope_head_dim +
\* qk_nope_head_dim; overflow_checks is the profile the crate was built with
AttentionNew(cfg, paged_attn, overflow_checks) ==
    [paged_attn      |-> paged_attn,
     q_head_dim      |-> cfg.qk_rope_head_dim + cfg.qk_nope_head_dim,
     v_head_dim      |-> cfg.v_head_dim,
     overflow_checks |-> overflow_checks]

\* the attention layers of a model with qk_nope_head_dim = 2,
\* qk_rope_head_dim = 1 and v_head_dim = 2
Attentions ==
    {AttentionNew([qk_nope_head_dim |-> 2, qk_rope_head_dim |-> 1, v_head_dim |-> 2],
                  paged_attn, TRUE) : paged_attn \in BOOLEAN}

NewRun ==
    [kv_cache |-> <<>>, blocks |-> <<>>, outs |-> <<>>, paged_calls |-> 0,
     pos |-> 0, status |-> "none", proj |-> <<>>]

NoAttnCall == [xs |-> <<>>, offset |-> 0, mask |-> None, metadata |-> FALSE]

\* the chunks of at most n tokens
Chunks(n) == UNION {[1..len -> Tok] : len \in 1..n}

AttnIdle ==
    /\ attn = CHOOSE a \in Attentions : ~a.paged_attn
    /\ acall = NoAttnCall
    /\ run = NewRun
    /\ twin = NewRun
    /\ altered = -1

\* Attention::new with or without a paged backend
AttnInit ==
    /\ attn \in Attentions
    /\ acall = NoAttnCall
    /\ run = NewRun
    /\ twin = NewRun
    /\ altered = -1

\* a call of Attention::forward by any caller: the mask is the causal mask of
\* the chunk or is absent, the paged metadata is passed or not
AttnForward ==
    /\ run.status \in {"none", "ok"}       \* an Err or a panic ends the run
    /\ run.pos < MaxPos
    /\ \E xs \in Chunks(MaxPos - run.pos), metadata \in BOOLEAN, masked \in BOOLEAN :
          LET call == [xs |-> xs, offset |-> run.pos,
                       mask |-> IF masked
                                THEN Some([tgt |-> Len(xs), past |-> run.pos])
                                ELSE None,
                       metadata |-> metadata]
          IN  /\ acall' = call
              /\ run' = AttentionForward(attn, run, call)
    /\ UNCHANGED <<attn, twin, altered, gvars, mvars, cvars, svars, qvars>>

\* the chunk xs of the second run: the token at the altered position differs
Alter(xs, offset, at) ==
    [r \in 1..Len(xs) |-> IF offset + r - 1 = at THEN 1 - xs[r] ELSE xs[r]]

\* lines 921-930: the past length the mask is made for comes from
\* seqlen_offsets when metadata is passed, else from the cache
PastKvLen(st, call) == IF call.metadata THEN call.offset ELSE Len(st.kv_cache)

\* DeepSeekV3::forward (one layer): the causal mask is made from the input
\* and handed to the layer; both runs are fed the call
ModelForward ==
    /\ run.status \in {"none", "ok"}       \* an Err or a panic ends the run
    /\ run.pos < MaxPos
    /\ \E xs \in Chunks(MaxPos - run.pos), metadata \in BOOLEAN :
          LET call == [xs |-> xs, offset |-> run.pos, mask |-> None,
                       metadata |-> metadata]
              callA == [call EXCEPT
                           !.mask = MakeCausalMaskMatrix(Len(xs), PastKvLen(run, call))]
              callB == [call EXCEPT
                           !.xs = Alter(xs, run.pos, altered),
                           !.mask = MakeCausalMaskMatrix(Len(xs), PastKvLen(twin, call))]
          IN  /\ acall' = callA
              /\ run' = AttentionForward(attn, run, callA)
              /\ twin' = AttentionForward(attn, twin, callB)
    /\ UNCHANGED <<attn, altered, gvars, mvars, cvars, svars, qvars>>

(***************************************************************************)
(* DecoderLayer::new and MoeOrMlp::forward.                                *)
(***************************************************************************)

\* the fields of DeepSeekV3Config that DecoderLayer::new reads to choose the
\* feed-forward block; every usize value deserialises, 0 included
LayerCfgs ==
    [n_routed_experts      : {None, Some(4)},
     first_k_dense_replace : 0..MaxLayer,
     moe_layer_freq        : 0..MaxLayer]

\* lines 709-729: the choice of the block.  && evaluates left to right, and
\* layer_idx % cfg.moe_layer_freq panics when moe_layer_freq is 0
MoeOrMlpNew(cfg, layer_idx) ==
    IF cfg.n_routed_experts # None /\ layer_idx >= cfg.first_k_dense_replace
    THEN IF cfg.moe_layer_freq = 0
         THEN [pc |-> "panic", moe_or_mlp |-> "none"]
         ELSE IF layer_idx % cfg.moe_layer_freq = 0
              THEN [pc |-> "built", moe_or_mlp |-> "Moe"]
              ELSE [pc |-> "built", moe_or_mlp |-> "Mlp"]
    ELSE [pc |-> "built", moe_or_mlp |-> "Mlp"]

NoLayer ==
    [pc |-> "idle", cfg |-> <<>>, layer_idx |-> 0, moe_or_mlp |-> "none", used |-> <<>>]

NoGateNew == [pc |-> "idle", cfg |-> <<>>, vb |-> {}]

NoAttentionNew == [pc |-> "idle", cfg |-> <<>>, vb |-> FALSE]

LayerIdle == layer = NoLayer /\ gnew = NoGateNew /\ anew = NoAttentionNew

LayerInit ==
    /\ \E cfg \in LayerCfgs, layer_idx \in 0..MaxLayer :
          layer = [pc |-> "unbuilt", cfg |-> cfg, layer_idx |-> layer_idx,
                   moe_or_mlp |-> "none", used |-> <<>>]
    /\ gnew = NoGateNew
    /\ anew = NoAttentionNew

\* DecoderLayer::new
DecoderLayerNew ==
    /\ layer.pc = "unbuilt"
    /\ LET res == MoeOrMlpNew(layer.cfg, layer.layer_idx)
       IN  layer' = [layer EXCEPT !.pc = res.pc, !.moe_or_mlp = res.moe_or_mlp]
    /\ UNCHANGED <<gnew, anew, gvars, mvars, avars, svars, qvars>>

\* lines 664-671: MoeOrMlp::forward runs the block the layer holds
MoeOrMlpForward ==
    /\ layer.pc = "built"
    /\ Len(layer.used) < MaxForwards
    /\ layer' = [layer EXCEPT !.used = Append(@, layer.moe_or_mlp)]
    /\ UNCHANGED <<gnew, anew, gvars, mvars, avars, svars, qvars>>

LayerNext == DecoderLayerNew \/ MoeOrMlpForward

(***************************************************************************)
(* MoeGate::new as a step: the gate is built from a config and from the    *)
(* tensors the checkpoint holds under the gate's prefix (vb), then forward *)
(* is called on it.                                                        *)
(***************************************************************************)

\* configurations with 4 routed experts in 1, 2 or 3 groups
GateNewCfgs ==
    [topk_method           : TopkMethods,
     scoring_func          : ScoringFuncs,
     n_routed_experts      : {4},
     n_group               : {1, 2, 3},
     topk_group            : {1},
     num_experts_per_tok   : 1..MaxTopK,
     norm_topk_prob        : {FALSE},
     routed_scaling_factor : {1000}]

\* the tensors a checkpoint can hold for the gate
GateTensors == {"weight", "e_score_correction_bias"}

\* the gate variable before MoeGate::new returned a gate
NoGate == [topk_method |-> "none"]

\* mutant: a missing e_score_correction_bias is not an error
MoeGateNewFrom_BiasOptional(cfg, vb) ==
    IF "weight" \notin vb
    THEN [pc |-> "err", gate |-> NoGate]
    ELSE IF "e_score_correction_bias" \notin vb
         THEN [pc |-> "built",
               gate |-> [MoeGateNew(cfg, <<>>) EXCEPT !.e_score_correction_bias = None]]
         ELSE [pc |-> "built",
               gate |-> MoeGateNew(cfg, [i \in 0..(cfg.n_routed_experts - 1) |-> 0])]

\* lines 442-461: vb.get of "weight", and under NoAuxTc of
\* "e_score_correction_bias", returns Err when the tensor is missing; no field
\* of the config is validated
MoeGateNewFrom(cfg, vb) ==
    IF "weight" \notin vb
    THEN [pc |-> "err", gate |-> NoGate]
    ELSE IF cfg.topk_method = "NoAuxTc" /\ "e_score_correction_bias" \notin vb
         THEN [pc |-> "err", gate |-> NoGate]
         ELSE [pc |-> "built",
               gate |-> MoeGateNew(cfg, [i \in 0..(cfg.n_routed_experts - 1) |-> 0])]

GateNewInit ==
    /\ \E cfg \in GateNewCfgs, vb \in SUBSET GateTensors :
          gnew = [pc |-> "unbuilt", cfg |-> cfg, vb |-> vb]
    /\ gate = NoGate
    /\ GateIdle
    /\ layer = NoLayer
    /\ anew = NoAttentionNew

\* the call of MoeGate::new
GateNew ==
    /\ gnew.pc = "unbuilt"
    /\ LET res == MoeGateNewFrom(gnew.cfg, gnew.vb)
       IN  /\ gnew' = [gnew EXCEPT !.pc = res.pc]
           /\ gate' = res.gate
    /\ UNCHANGED <<logits, gout, gpc, layer, anew, mvars, avars, svars, qvars>>

\* forward is called on a gate that was built
GateNewForward == gnew.pc = "built" /\ GateForward

GateNewNext == GateNew \/ GateNewForward \/ GateReturn

(***************************************************************************)
(* Attention::new as a step, then forward on the Attention it returned.    *)
(***************************************************************************)

\* lines 157-242: every projection is loaded with `?`, an Err when a tensor is
\* missing from the checkpoint or has another shape than the config gives
\* (vb = FALSE); the head dimensions are not compared with one another
AttentionNewFrom(cfg, vb, paged_attn, overflow_checks) ==
    IF ~vb THEN [pc |-> "err", attn |-> AttentionNew(cfg, paged_attn, overflow_checks)]
    ELSE [pc |-> "built", attn |-> AttentionNew(cfg, paged_attn, overflow_checks)]

AttnNewInit ==
    /\ \E cfg \in HeadDimCfgs, vb \in BOOLEAN, paged_attn \in BOOLEAN,
          overflow_checks \in BOOLEAN :
          /\ anew = [pc |-> "unbuilt", cfg |-> cfg, vb |-> vb]
          /\ attn = AttentionNew(cfg, paged_attn, overflow_checks)
    /\ acall = NoAttnCall
    /\ run = NewRun
    /\ twin = NewRun
    /\ altered = -1
    /\ layer = NoLayer
    /\ gnew = NoGateNew

\* the call of Attention::new
AttnNew ==
    /\ anew.pc = "unbuilt"
    /\ LET res == AttentionNewFrom(anew.cfg, anew.vb, attn.paged_attn,
                                   attn.overflow_checks)
       IN  /\ anew' = [anew EXCEPT !.pc = res.pc]
           /\ attn' = res.attn
    /\ UNCHANGED <<acall, run, twin, altered, layer, gnew, gvars, mvars, svars, qvars>>

\* forward is called on an Attention that was built
AttnNewForward == anew.pc = "built" /\ AttnForward

AttnNewNext == AttnNew \/ AttnNewForward

(***************************************************************************)
(* sampler.rs: Sampler.  Logits, probabilities, penalties, the temperature,*)
(* top_p and min_p are reals in thousandths.  The samplers of the model    *)
(* built by SamplerNew have no tokenizer, so dry_params is None and every   *)
(* bytes field is None; no sampler has logits_processors.                  *)
(***************************************************************************)
VocabSize == 2       \* the tokens of the vocabulary: 0..VocabSize - 1

\* f32::log(10.0): NaN below zero, -inf at zero, else the logarithm, kept
\* symbolic (two logarithms are equal iff their arguments are)
Log10(x) ==
    IF x < 0 THEN [kind |-> "NaN", arg |-> 0]
    ELSE IF x = 0 THEN [kind |-> "-inf", arg |-> 0]
    ELSE [kind |-> "log10", arg |-> x]

\* Tensor::argmax(D::Minus1): the first index that holds the maximum
ArgMax(v, n) ==
    CHOOSE i \in 0..(n - 1) :
        /\ \A j \in 0..(n - 1) : v[j] <= v[i]
        /\ \A j \in 0..(i - 1) : v[j] < v[i]

\* Sampler::new: a temperature below 1e-7 is no temperature
SamplerNew(temperature, top_n_logprobs, freq, pres, top_k, top_p, min_p) ==
    [temperature       |-> IF temperature = None \/ Unwrap(temperature) <= 0
                           THEN None ELSE temperature,
     top_n_logprobs    |-> top_n_logprobs,
     frequency_penalty |-> freq,
     presence_penalty  |-> pres,
     dry_params        |-> None,
     top_k             |-> top_k,
     top_p             |-> top_p,
     min_p             |-> min_p]

\* The outcomes of a call: Ok(Logprobs), Err, or a panic
SampleErr ==
    [status |-> "err", token |-> 0, logprob |-> Log10(-1), top_logprobs |-> None]
SamplePanic ==
    [status |-> "panic", token |-> 0, logprob |-> Log10(-1), top_logprobs |-> None]

\* get_top_logprobs: the k = min(top_n_logprobs, len) most probable tokens by
\* descending probability; select_nth_unstable_by(k) panics when k = len.
\* The empty set stands for the panic.
GetTopLogprobs(s, probs, n) ==
    LET k == IF s.top_n_logprobs < n THEN s.top_n_logprobs ELSE n
    IN  IF k = 0 THEN {<<>>}
        ELSE IF k >= n THEN {}
        ELSE {[j \in 1..k |-> [token |-> r.indices[j], logprob |-> Log10(r.values[j])]] :
                 r \in TopK(probs, n, k)}

\* The tail shared by the three samplers: the Logprobs of next_token
MakeLogprobs(s, probs, n, next_token, return_logprobs) ==
    LET top == GetTopLogprobs(s, probs, n)
    IN  IF ~return_logprobs
        THEN {[status |-> "ok", token |-> next_token,
               logprob |-> Log10(probs[next_token]), top_logprobs |-> None]}
        ELSE IF top = {} THEN {SamplePanic}
        ELSE {[status |-> "ok", token |-> next_token,
               logprob |-> Log10(probs[next_token]), top_logprobs |-> Some(t)] :
                 t \in top}

SampleArgmax_LastToken(s, lg, n, return_logprobs) ==
    MakeLogprobs(s, lg, n, n - 1, return_logprobs)

\* sample_argmax
SampleArgmax(s, lg, n, return_logprobs) ==
    MakeLogprobs(s, lg, n, ArgMax(lg, n), return_logprobs)

\* The top-k clamp: the tokens at positions >= top_k of the descending
\* order p are set to zero
TopKClamp(probs, p, n, top_k) ==
    IF top_k > 0
    THEN [i \in 0..(n - 1) |->
            IF \E j \in 1..n : p[j] = i /\ j - 1 >= top_k THEN 0 ELSE probs[i]]
    ELSE probs

\* The top-p loop over the descending order p, from position i on
RECURSIVE TopPClamp(_, _, _, _, _, _)
TopPClamp(probs, p, i, n, cumsum, top_p) ==
    IF i > n THEN probs
    ELSE IF cumsum >= top_p
         THEN TopPClamp([probs EXCEPT ![p[i]] = 0], p, i + 1, n, cumsum, top_p)
         ELSE TopPClamp(probs, p, i + 1, n, cumsum + probs[p[i]], top_p)

\* The min-p loop: max_p * min_p >= probs[i] clamps token i to zero
MinPClamp(probs, p, n, min_p) ==
    LET max_p == probs[p[1]]
    IN  [i \in 0..(n - 1) |->
            IF max_p * min_p >= probs[i] * 1000 THEN 0 ELSE probs[i]]

\* sample_speculative_top_kp_min_p
SampleSpeculativeTopKpMinP(s, lg, n, return_logprobs) ==
    UNION {
        LET k == TopKClamp(lg, p, n, s.top_k)
            t == TopPClamp(k, p, 1, n, 0, s.top_p)
            probs == MinPClamp(t, p, n, s.min_p)
        IN  MakeLogprobs(s, probs, n, ArgMax(probs, n), return_logprobs)
        : p \in ArgSortLastDim(lg, n, FALSE)}

\* rand's WeightedIndex::new(probs) and the indices its sample can return:
\* new is an Err (None) when a weight is negative or all weights are zero, and
\* sample returns an index of non-zero weight, any of them for some rng state
WeightedIndex(probs, n) ==
    IF (\E i \in 0..(n - 1) : probs[i] < 0) \/ (\A i \in 0..(n - 1) : probs[i] = 0)
    THEN None
    ELSE Some({i \in 0..(n - 1) : probs[i] > 0})

SampleMultinomial_AnyToken(s, probs, n, return_logprobs) ==
    UNION {MakeLogprobs(s, probs, n, next_token, return_logprobs) :
              next_token \in 0..(n - 1)}

\* lines 589-624, sample_multinomial: WeightedIndex::new(probs)?, the token
\* drawn by distr.sample(rng), then the Logprobs of that token
SampleMultinomial(s, probs, n, return_logprobs) ==
    LET distr == WeightedIndex(probs, n)
    IN  IF distr = None
        THEN {SampleErr}
        ELSE UNION {MakeLogprobs(s, probs, n, next_token, return_logprobs) :
                       next_token \in Unwrap(distr)}

\* sample_top_kp_min_p
SampleTopKpMinP(s, sm, n, return_logprobs) ==
    UNION {
        LET k == TopKClamp(sm, p, n, s.top_k)
            t == TopPClamp(k, p, 1, n, 0, s.top_p)
            m == MinPClamp(t, p, n, s.min_p)
        IN  IF s.top_p <= 0 \/ s.top_p >= 1000
            THEN SampleMultinomial(s, k, n, return_logprobs)
            ELSE IF s.min_p <= 0 \/ s.min_p >= 1000
            THEN SampleMultinomial(s, t, n, return_logprobs)
            ELSE SampleMultinomial(s, m, n, return_logprobs)
        : p \in ArgSortLastDim(sm, n, FALSE)}

ApplyFreqPrescPenalty_PresencePerOccurrence(s, lg, n, context) ==
    LET frequency_penalty ==
            IF s.frequency_penalty = None THEN 0 ELSE Unwrap(s.frequency_penalty)
        presence_penalty ==
            IF s.presence_penalty = None THEN 0 ELSE Unwrap(s.presence_penalty)
        counts == [i \in 0..(n - 1) |->
                     Cardinality({j \in DOMAIN context : context[j] = i})]
    IN  [i \in 0..(n - 1) |->
            lg[i] - counts[i] * frequency_penalty - counts[i] * presence_penalty]

\* apply_freq_presc_penalty: context tokens outside the vocabulary are skipped
ApplyFreqPrescPenalty(s, lg, n, context) ==
    IF s.frequency_penalty # None \/ s.presence_penalty # None
    THEN LET frequency_penalty ==
                 IF s.frequency_penalty = None THEN 0 ELSE Unwrap(s.frequency_penalty)
             presence_penalty ==
                 IF s.presence_penalty = None THEN 0 ELSE Unwrap(s.presence_penalty)
             counts == [i \in 0..(n - 1) |->
                          Cardinality({j \in DOMAIN context : context[j] = i})]
         IN  [i \in 0..(n - 1) |->
                lg[i] - counts[i] * frequency_penalty
                      - (IF counts[i] > 0 THEN 1 ELSE 0) * presence_penalty]
    ELSE lg

DryMatchLimit == 50

\* DrySamplingParamsInner::from.  The tokenizer is given by what it returns:
\* other.encodings[k] is the ids of "a" + the k-th sequence breaker.  A
\* non-empty encoding maps to None and is dropped by flatten; an empty one
\* indexes ids[ids.len() - 1], out of range whether or not the subtraction
\* is checked.  The empty set stands for that panic.
DrySamplingParamsInnerFrom(other) ==
    IF \E k \in DOMAIN other.encodings : other.encodings[k] = <<>> THEN None
    ELSE Some([sequence_breakers |-> {},
               multiplier |-> other.multiplier,
               base |-> other.base,
               allowed_length |-> other.allowed_length])

\* Sampler::new with a tokenizer and DRY parameters, the other arguments
\* those of a sampler without temperature or penalties; the empty set stands
\* for the panic of DrySamplingParamsInner::from
SamplerNewDry(other) ==
    IF DrySamplingParamsInnerFrom(other) = None THEN None
    ELSE Some([SamplerNew(None, 1, None, None, 0, 1000, 0)
                  EXCEPT !.dry_params = DrySamplingParamsInnerFrom(other)])

\* f32::powf with a natural exponent
RECURSIVE Powf(_, _)
Powf(base, e) == IF e = 0 THEN 1000 ELSE Mul(base, Powf(base, e - 1))

\* The while loop of apply_dry_penalty for the match at index i (from 0),
\* entered with match_length = ml
RECURSIVE DryMatchLength(_, _, _, _)
DryMatchLength(context, i, breakers, ml) ==
    IF ml >= DryMatchLimit THEN ml
    ELSE IF ml > i THEN ml
    ELSE LET prev_tok == context[Len(context) - ml]
         IN  IF context[i - ml + 1] # prev_tok THEN ml
             ELSE IF prev_tok \in breakers THEN ml
             ELSE DryMatchLength(context, i, breakers, ml + 1)

\* apply_dry_penalty on a non-empty context
ApplyDryPenalty(s, lg, n, context) ==
    IF s.dry_params = None THEN lg
    ELSE LET params == Unwrap(s.dry_params)
             len == Len(context)
             match_indices == {i \in 0..(len - 2) : context[i + 1] = context[len]}
             counted == {i \in match_indices :
                            context[i + 2] \notin params.sequence_breakers}
             lengths(tok) ==
                 {DryMatchLength(context, i, params.sequence_breakers, 1) :
                     i \in {i \in counted : context[i + 2] = tok}}
             match_len(tok) ==
                 CHOOSE m \in lengths(tok) : \A x \in lengths(tok) : x <= m
         IN  IF params.multiplier = 0 THEN lg
             ELSE [tok \in 0..(n - 1) |->
                     IF lengths(tok) # {} /\ match_len(tok) >= params.allowed_length
                     THEN lg[tok] - Mul(params.multiplier,
                                        Powf(params.base,
                                             match_len(tok) - params.allowed_length))
                     ELSE lg[tok]]

\* apply_penalties: the empty set stands for the Err of an empty context
ApplyPenalties(s, lg, n, context) ==
    IF context = <<>> THEN None
    ELSE Some(ApplyFreqPrescPenalty(s, ApplyDryPenalty(s, lg, n, context), n, context))

\* &logits / temperature, then softmax_last_dim
SoftmaxOverTemperature(lg, n, temperature) ==
    SoftmaxLastDim([i \in 0..(n - 1) |-> Div(lg[i], temperature) \div 1000], n)

\* Sampler::sample: the set of its outcomes
Sample(s, c) ==
    LET n == VocabSize
        pen == ApplyPenalties(s, c.logits, n, c.context)
    IN  IF pen = None THEN {SampleErr}
        ELSE LET lg == Unwrap(pen)
             IN  IF c.sample_speculative
                 THEN IF s.temperature = None
                      THEN SampleSpeculativeTopKpMinP(s, lg, n, c.return_logprobs)
                      ELSE SampleSpeculativeTopKpMinP(
                               s, SoftmaxOverTemperature(lg, n, Unwrap(s.temperature)),
                               n, c.return_logprobs)
                 ELSE IF s.temperature = None
                      THEN SampleArgmax(s, lg, n, c.return_logprobs)
                      ELSE SampleTopKpMinP(
                               s, SoftmaxOverTemperature(lg, n, Unwrap(s.temperature)),
                               n, c.return_logprobs)

\* The samplers and the calls of the model
Temperatures == {None, Some(0), Some(1000)}
PenaltyPairs ==
    {<<None, None>>, <<Some(1000), None>>, <<None, Some(1000)>>,
     <<Some(1000), Some(1000)>>}
TopKs == {0, 1, 2}
TopPs == {0, 500, 1000}
MinPs == {0, 50, 1000}
TopNLogprobs == {1, VocabSize}
LogitValues == {-1000, 1000, 2000}
Contexts == {<<>>, <<0>>, <<1, 7>>}

Samplers ==
    {SamplerNew(t, tn, f[1], f[2], k, tp, mp) :
        t \in Temperatures, tn \in TopNLogprobs, f \in PenaltyPairs,
        k \in TopKs, tp \in TopPs, mp \in MinPs}

SampleCalls ==
    [logits : [0..(VocabSize - 1) -> LogitValues], context : Contexts,
     return_logprobs : BOOLEAN, sample_speculative : BOOLEAN]

NoSampler == SamplerNew(None, 0, None, None, 0, 0, 0)
NoSampleCall ==
    [logits |-> <<>>, context |-> <<>>, return_logprobs |-> FALSE,
     sample_speculative |-> FALSE]
NoSampleResult ==
    [status |-> "none", token |-> 0, logprob |-> Log10(-1), top_logprobs |-> None]

SamplerIdle ==
    /\ sampler = NoSampler
    /\ scall = NoSampleCall
    /\ sres = NoSampleResult

SamplerInit ==
    /\ sampler \in Samplers
    /\ scall = NoSampleCall
    /\ sres = NoSampleResult

\* A call of Sampler::sample on the sampler, from its entry to its return.
\* sample takes &self and leaves the sampler as it is, so the first call of
\* a sampler shows every call.
SamplerSample ==
    /\ sres.status = "none"
    /\ \E c \in SampleCalls :
          /\ scall' = c
          /\ sres' \in Sample(sampler, c)
    /\ UNCHANGED <<sampler, gvars, mvars, avars, cvars, qvars>>

SamplerNext == SamplerSample

\* The samplers and the inputs of a call of apply_freq_presc_penalty alone
PenaltySamplers ==
    {SamplerNew(None, 1, f, p, 0, 1000, 0) :
        f \in {None, Some(1000)}, p \in {None, Some(2000)}}
PenaltyContexts == {<<>>, <<0>>, <<1, 1>>, <<0, 7, 0>>, <<VocabSize>>, <<1, VocabSize, 1, 0>>}

SamplerPenaltyInit ==
    /\ sampler \in PenaltySamplers
    /\ scall = NoSampleCall
    /\ sres = NoSampleResult

\* A call of apply_freq_presc_penalty on a vector of logits and a context
SamplerApplyFreqPrescPenalty ==
    /\ sres.status = "none"
    /\ \E lg \in [0..(VocabSize - 1) -> LogitValues], context \in PenaltyContexts :
          /\ scall' = [logits |-> lg, context |-> context,
                       return_logprobs |-> FALSE, sample_speculative |-> FALSE]
          /\ sres' = [status |-> "ok",
                      logits |-> ApplyFreqPrescPenalty(sampler, lg, VocabSize, context)]
    /\ UNCHANGED <<sampler, gvars, mvars, avars, cvars, qvars>>

SamplerPenaltyNext == SamplerApplyFreqPrescPenalty

\* The DRY parameters and the tokenizers (as the encodings they return for
\* the breakers) of the model, and the contexts: every sequence of one to
\* four tokens of the vocabulary
DryParams ==
    [encodings : {<<>>, << <<0, 1>> >>, << <<1, 0>>, <<1>> >>, << <<>> >>},
     multiplier : {0, 1000}, base : {2000}, allowed_length : {1, 2}]
DryContexts == UNION {[1..k -> 0..(VocabSize - 1)] : k \in 1..4}
NoDryCall == [new |-> CHOOSE other \in DryParams : TRUE, logits |-> <<>>, context |-> <<>>]

\* The state after Sampler::new with DRY parameters and a tokenizer
SamplerDryInit ==
    \E other \in DryParams :
        /\ scall = [NoDryCall EXCEPT !.new = other]
        /\ IF SamplerNewDry(other) = None
           THEN sampler = NoSampler /\ sres = [status |-> "panic", logits |-> <<>>]
           ELSE sampler = Unwrap(SamplerNewDry(other))
                  /\ sres = [status |-> "new", logits |-> <<>>]

\* A call of apply_dry_penalty on a vector of logits and a context
SamplerApplyDryPenalty ==
    /\ sres.status = "new"
    /\ \E lg \in [0..(VocabSize - 1) -> {1000, 2000}], context \in DryContexts :
          /\ scall' = [scall EXCEPT !.logits = lg, !.context = context]
          /\ sres' = [status |-> "ok",
                      logits |-> ApplyDryPenalty(sampler, lg, VocabSize, context)]
    /\ UNCHANGED <<sampler, gvars, mvars, avars, cvars, qvars>>

SamplerDryNext == SamplerApplyDryPenalty

(***************************************************************************)
(* unquantized/mod.rs: UnquantLinear and its QuantizedSerde.  A buffer is  *)
(* a sequence of bytes; a Cursor is the buffer and the offset pos of the   *)
(* next byte.  A tensor is its dtype, its dims and its elements; the       *)
(* device is left out.                                                     *)
(***************************************************************************)
UQFF_VERSION == 259
QuantizedSerdeTypeUnquant == 1

\* u32::to_le_bytes
U32LE(x) ==
    <<x % 256, (x \div 256) % 256, (x \div 65536) % 256, (x \div 16777216) % 256>>

\* Cursor::read_u8 and read_u32::<LittleEndian>: None at the end of the buffer
ReadU8(buf, pos) ==
    IF pos + 1 > Len(buf) THEN None ELSE Some(buf[pos + 1])

ReadU32(buf, pos) ==
    IF pos + 4 > Len(buf) THEN None
    ELSE Some(buf[pos + 1] + 256 * buf[pos + 2] + 65536 * buf[pos + 3]
                + 16777216 * buf[pos + 4])

\* version_is_compatible: the major versions agree
VersionIsCompatible(version) == version \div 65536 = UQFF_VERSION \div 65536

\* The dtypes of the model, their codes (write_dtype) and element sizes
DTypes == {"U8", "U32"}
DTypeCode(d) == IF d = "U8" THEN 0 ELSE 1
DTypeSize(d) == IF d = "U8" THEN 1 ELSE 4

RECURSIVE Prod(_)
Prod(dims) == IF dims = <<>> THEN 1 ELSE Head(dims) * Prod(Tail(dims))

\* data_to_bytes: the elements in little-endian order
RECURSIVE DataToBytes(_, _)
DataToBytes(d, elems) ==
    IF elems = <<>> THEN <<>>
    ELSE (IF d = "U8" THEN <<Head(elems)>> ELSE U32LE(Head(elems)))
            \o DataToBytes(d, Tail(elems))

\* the inverse, on a byte sequence whose length is a multiple of the size
RECURSIVE BytesToData(_, _)
BytesToData(d, bytes) ==
    IF bytes = <<>> THEN <<>>
    ELSE IF d = "U8" THEN <<Head(bytes)>> \o BytesToData(d, Tail(bytes))
    ELSE <<Unwrap(ReadU32(bytes, 0))>> \o BytesToData(d, SubSeq(bytes, 5, Len(bytes)))

RECURSIVE DimsToBytes(_)
DimsToBytes(dims) ==
    IF dims = <<>> THEN <<>> ELSE U32LE(Head(dims)) \o DimsToBytes(Tail(dims))

\* serialize_tensor: data length, dtype, number of dims, the dims, the data
SerializeTensor(t) ==
    LET data == DataToBytes(t.dtype, t.elems)
    IN  U32LE(Len(data)) \o U32LE(DTypeCode(t.dtype)) \o U32LE(Len(t.dims))
            \o DimsToBytes(t.dims) \o data

NoTensor == [dtype |-> "U8", dims |-> <<>>, elems |-> <<>>]
TensorErr == [ok |-> FALSE, tensor |-> NoTensor, pos |-> 0]

\* deserialize_tensor at the cursor: the tensor and the offset after it
DeserializeTensor(buf, pos) ==
    LET len == ReadU32(buf, pos)
        code == ReadU32(buf, pos + 4)
        nd == ReadU32(buf, pos + 8)
    IN  IF len = None \/ code = None \/ nd = None THEN TensorErr
        ELSE IF \A d \in DTypes : DTypeCode(d) # Unwrap(code) THEN TensorErr
        ELSE LET d == CHOOSE d \in DTypes : DTypeCode(d) = Unwrap(code)
                 n == Unwrap(nd)
                 start == pos + 12 + 4 * n
                 size == Unwrap(len)
             IN  IF start + size > Len(buf) THEN TensorErr
                 ELSE LET dims == [i \in 1..n |-> Unwrap(ReadU32(buf, pos + 8 + 4 * i))]
                          bytes == SubSeq(buf, start + 1, start + size)
                      IN  IF size % DTypeSize(d) # 0
                             \/ size \div DTypeSize(d) # Prod(dims)
                          THEN TensorErr
                          ELSE [ok |-> TRUE,
                                tensor |-> [dtype |-> d, dims |-> dims,
                                            elems |-> BytesToData(d, bytes)],
                                pos |-> start + size]

\* UnquantLinear::new
UnquantLinearNew(w, b) == [w |-> w, b |-> b, stats |-> None]

SerializeWithBias_FlagCleared(l, bias) ==
    U32LE(UQFF_VERSION) \o <<QuantizedSerdeTypeUnquant>> \o <<0>>
        \o SerializeTensor(l.w)
        \o (IF bias # None THEN SerializeTensor(Unwrap(bias)) ELSE <<>>)

\* serialize_with_bias
SerializeWithBias(l, bias) ==
    U32LE(UQFF_VERSION) \o <<QuantizedSerdeTypeUnquant>>
        \o <<IF bias # None THEN 1 ELSE 0>>
        \o SerializeTensor(l.w)
        \o (IF bias # None THEN SerializeTensor(Unwrap(bias)) ELSE <<>>)

\* serialize
Serialize(l) == SerializeWithBias(l, l.b)

NoLinear == UnquantLinearNew(NoTensor, None)
\* What a call returned: status, the operation, the layer and the external
\* bias of an Ok, the kind of an Err, and what the call consumed of the
\* buffer: the header bytes read through the cursor and whether
\* deserialize_tensor was called
NoQuantResult ==
    [status |-> "none", op |-> "none", layer |-> NoLinear, bias |-> None,
     err |-> "none", header |-> 0, tensors |-> FALSE]

QuantErr(op, r) ==
    [status |-> "err", op |-> op, layer |-> NoLinear, bias |-> None,
     err |-> r.err, header |-> r.header, tensors |-> r.tensors]

ReadErr(kind, header, tensors) ==
    [ok |-> FALSE, w |-> NoTensor, b |-> None,
     err |-> kind, header |-> header, tensors |-> tensors]

ReadLayer_TypeFirst(data) ==
    LET version == ReadU32(data, 0)
        isq_type == ReadU8(data, 4)
        has_bias == ReadU8(data, 5)
        w == DeserializeTensor(data, 6)
        b == DeserializeTensor(data, w.pos)
    IN  IF version = None THEN ReadErr("eof", 0, FALSE)
        ELSE IF isq_type = None THEN ReadErr("eof", 4, FALSE)
        ELSE IF Unwrap(isq_type) # QuantizedSerdeTypeUnquant
             THEN ReadErr("isq_type", 5, FALSE)
        ELSE IF ~VersionIsCompatible(Unwrap(version)) THEN ReadErr("version", 5, FALSE)
        ELSE IF has_bias = None THEN ReadErr("eof", 5, FALSE)
        ELSE IF ~w.ok THEN ReadErr("tensor", 6, TRUE)
        ELSE IF Unwrap(has_bias) # 0
             THEN IF ~b.ok THEN ReadErr("tensor", 6, TRUE)
                  ELSE [ok |-> TRUE, w |-> w.tensor, b |-> Some(b.tensor),
                        err |-> "none", header |-> 6, tensors |-> TRUE]
             ELSE [ok |-> TRUE, w |-> w.tensor, b |-> None,
                   err |-> "none", header |-> 6, tensors |-> TRUE]

\* The part deserialize and deserialize_ext_bias share: the version, the ISQ
\* type and the has-bias flag read and checked in this order, then the weight
\* and the bias read from the buffer
ReadLayer(data) ==
    LET version == ReadU32(data, 0)
        isq_type == ReadU8(data, 4)
        has_bias == ReadU8(data, 5)
        w == DeserializeTensor(data, 6)
        b == DeserializeTensor(data, w.pos)
    IN  IF version = None THEN ReadErr("eof", 0, FALSE)
        ELSE IF ~VersionIsCompatible(Unwrap(version)) THEN ReadErr("version", 4, FALSE)
        ELSE IF isq_type = None THEN ReadErr("eof", 4, FALSE)
        ELSE IF Unwrap(isq_type) # QuantizedSerdeTypeUnquant
             THEN ReadErr("isq_type", 5, FALSE)
        ELSE IF has_bias = None THEN ReadErr("eof", 5, FALSE)
        ELSE IF ~w.ok THEN ReadErr("tensor", 6, TRUE)
        ELSE IF Unwrap(has_bias) # 0
             THEN IF ~b.ok THEN ReadErr("tensor", 6, TRUE)
                  ELSE [ok |-> TRUE, w |-> w.tensor, b |-> Some(b.tensor),
                        err |-> "none", header |-> 6, tensors |-> TRUE]
             ELSE [ok |-> TRUE, w |-> w.tensor, b |-> None,
                   err |-> "none", header |-> 6, tensors |-> TRUE]

\* deserialize
Deserialize(data) ==
    LET r == ReadLayer(data)
    IN  IF ~r.ok THEN QuantErr("deserialize", r)
        ELSE [status |-> "ok", op |-> "deserialize",
              layer |-> [w |-> r.w, b |-> r.b, stats |-> None], bias |-> None,
              err |-> "none", header |-> r.header, tensors |-> r.tensors]

\* deserialize_ext_bias
DeserializeExtBias(data) ==
    LET r == ReadLayer(data)
    IN  IF ~r.ok THEN QuantErr("deserialize_ext_bias", r)
        ELSE [status |-> "ok", op |-> "deserialize_ext_bias",
              layer |-> [w |-> r.w, b |-> None, stats |-> None], bias |-> r.b,
              err |-> "none", header |-> r.header, tensors |-> r.tensors]

\* The layers of the model
TensorsOf(shapes) ==
    UNION {[dtype : {"U8"}, dims : {dims}, elems : [1..Prod(dims) -> {0, 255}]]
           \cup [dtype : {"U32"}, dims : {dims}, elems : [1..Prod(dims) -> {7, 66051}]]
           : dims \in shapes}
Weights == TensorsOf({<<1, 1>>, <<2, 1>>})
BiasTensors == TensorsOf({<<1>>, <<2>>})
Linears ==
    {UnquantLinearNew(w, b) : w \in Weights, b \in {None} \cup {Some(t) : t \in BiasTensors}}

QuantIdle ==
    /\ qlin = NoLinear
    /\ qbuf = <<>>
    /\ qout = NoQuantResult
    /\ qlog = <<>>
    /\ qend = <<>>

QuantInit ==
    /\ qlin \in Linears
    /\ qbuf = <<>>
    /\ qout = NoQuantResult
    /\ qlog = <<>>
    /\ qend = <<>>

\* A call of serialize on the layer; its bytes are kept for deserialization
QuantSerialize ==
    /\ qbuf = <<>>
    /\ qbuf' = Serialize(qlin)
    /\ UNCHANGED <<qlin, qout, qlog, qend, gvars, mvars, avars, cvars, svars>>

\* A call of deserialize on the kept bytes
QuantDeserialize ==
    /\ qbuf # <<>>
    /\ qout' = Deserialize(qbuf)
    /\ UNCHANGED <<qlin, qbuf, qlog, qend, gvars, mvars, avars, cvars, svars>>

\* A call of deserialize_ext_bias on the kept bytes
QuantDeserializeExtBias ==
    /\ qbuf # <<>>
    /\ qout' = DeserializeExtBias(qbuf)
    /\ UNCHANGED <<qlin, qbuf, qlog, qend, gvars, mvars, avars, cvars, svars>>

QuantNext == QuantSerialize \/ QuantDeserialize \/ QuantDeserializeExtBias

\* The buffers handed to deserialize that no serialize of this build wrote:
\* any version, any ISQ type byte, then nothing, or the flag and the tensors
\* of a layer; and buffers that end inside the header
Versions ==
    {UQFF_VERSION, UQFF_VERSION + 1, UQFF_VERSION + 65536, UQFF_VERSION + 131072}
IsqTypes == {0, 1, 2}
Bodies == {<<>>} \cup {SubSeq(Serialize(l), 6, Len(Serialize(l))) : l \in Linears}
Buffers ==
    {U32LE(v) \o <<t>> \o body : v \in Versions, t \in IsqTypes, body \in Bodies}
        \cup {SubSeq(U32LE(v), 1, k) : v \in Versions, k \in {3, 4}}

QuantLoadInit ==
    /\ qlin = NoLinear
    /\ qbuf \in Buffers
    /\ qout = NoQuantResult
    /\ qlog = <<>>
    /\ qend = <<>>

QuantLoadNext == QuantDeserialize \/ QuantDeserializeExtBias

(***************************************************************************)
(* UnquantLinear: forward and the imatrix statistics.  ImatrixLayerStats   *)
(* is a shared cell that holds the counters, or nothing once clear has run;*)
(* here a layer's stats is None, Some(None) for the emptied cell, or       *)
(* Some(Some([ncalls, row_accum])).  The layers are F32 with one input     *)
(* feature, an activation is one row holding one real, in whole units.     *)
(***************************************************************************)
\* ImatrixLayerStats::new
ImatrixNew == Some([ncalls |-> 0, row_accum |-> 0])

\* ImatrixLayerStats::process: None is the Err of an emptied cell
ImatrixProcess(cell, a) ==
    IF cell = None THEN None
    ELSE Some(Some([ncalls |-> Unwrap(cell).ncalls + 1,
                    row_accum |-> Unwrap(cell).row_accum + a * a]))

\* ImatrixLayerStats::compute_imatrix: the matrix is a function of the
\* counters and is kept as them; None is the Err of an emptied cell
ImatrixCompute(cell) == IF cell = None THEN None ELSE Some(Unwrap(cell))

\* ImatrixLayerStats::clear empties the cell
ImatrixClear == None

NoTrackResult == [status |-> "none", op |-> "none", imatrix |-> None, y |-> <<>>]

\* begin_track_stats: the layer after the call
BeginTrackStats(l) == [l EXCEPT !.stats = Some(ImatrixNew)]

\* The output of forward without the statistics: a * w^T + b, an Err when
\* the bias does not broadcast to the output width
ForwardOutput(l, a) ==
    LET out == l.w.dims[1]
    IN  IF l.b = None
        THEN [status |-> "ok", op |-> "forward", imatrix |-> None,
              y |-> [o \in 1..out |-> a * l.w.elems[o]]]
        ELSE LET b == Unwrap(l.b)
             IN  IF b.dims[1] # 1 /\ b.dims[1] # out
                 THEN [status |-> "err", op |-> "forward", imatrix |-> None, y |-> <<>>]
                 ELSE [status |-> "ok", op |-> "forward", imatrix |-> None,
                       y |-> [o \in 1..out |->
                                a * l.w.elems[o]
                                  + b.elems[IF b.dims[1] = 1 THEN 1 ELSE o]]]

\* forward: the layer after the call and what the call returned
UnquantForward(l, a) ==
    IF l.stats = None THEN [layer |-> l, out |-> ForwardOutput(l, a)]
    ELSE IF ImatrixProcess(Unwrap(l.stats), a) = None
    THEN [layer |-> l,
          out |-> [status |-> "err", op |-> "forward", imatrix |-> None, y |-> <<>>]]
    ELSE [layer |-> [l EXCEPT !.stats = ImatrixProcess(Unwrap(l.stats), a)],
          out |-> ForwardOutput(l, a)]

\* lines 290-291 of end_track_stats: the matrix compute_imatrix returns, None
\* for the Err of a layer without stats or of an emptied cell
EndTrackStatsCompute(l) ==
    IF l.stats = None THEN None ELSE ImatrixCompute(Unwrap(l.stats))

\* line 292 of end_track_stats: stats.clear() on the shared cell
EndTrackStatsClear(l) == [l EXCEPT !.stats = Some(ImatrixClear)]

\* The layers and the activations of the calls
TrackTensors(shapes) ==
    UNION {[dtype : {"F32"}, dims : {dims}, elems : [1..Prod(dims) -> {2, 3}]] :
              dims \in shapes}
TrackLinears ==
    {UnquantLinearNew(w, b) :
        w \in TrackTensors({<<1, 1>>, <<2, 1>>}),
        b \in {None} \cup {Some(t) : t \in TrackTensors({<<1>>, <<2>>})}}
Activations == {1, 2}

QuantTrackInit ==
    /\ qlin \in TrackLinears
    /\ qbuf = <<>>
    /\ qout = NoTrackResult
    /\ qlog = <<>>
    /\ qend = <<>>

\* the calls that returned and the ones in progress
CallsMade == Len(qlog) + Len(qend)

\* A call of begin_track_stats on the layer; it takes &mut self, so no other
\* call is in progress
QuantBeginTrackStats ==
    /\ CallsMade < MaxCalls
    /\ qend = <<>>
    /\ qlin' = BeginTrackStats(qlin)
    /\ qout' = [status |-> "ok", op |-> "begin_track_stats", imatrix |-> None, y |-> <<>>]
    /\ qlog' = Append(qlog, [op |-> "begin_track_stats", a |-> 0])
    /\ UNCHANGED <<qbuf, qend, gvars, mvars, avars, cvars, svars>>

\* A call of forward on the layer; it takes &self and the stats are a shared
\* cell, so it can run while end_track_stats is between its two calls
QuantForward ==
    /\ CallsMade < MaxCalls
    /\ \E a \in Activations :
          /\ qlin' = UnquantForward(qlin, a).layer
          /\ qout' = UnquantForward(qlin, a).out
          /\ qlog' = Append(qlog, [op |-> "forward", a |-> a])
    /\ UNCHANGED <<qbuf, qend, gvars, mvars, avars, cvars, svars>>

\* A call of end_track_stats on the layer, up to line 291: an Err returns at
\* once, else the matrix is computed and the cell is still to be cleared.  The
\* method takes &self, so other calls of it can be in progress
QuantEndCompute ==
    /\ CallsMade < MaxCalls
    /\ IF EndTrackStatsCompute(qlin) = None
       THEN /\ qout' = [status |-> "err", op |-> "end_track_stats",
                        imatrix |-> None, y |-> <<>>]
            /\ qlog' = Append(qlog, [op |-> "end_track_stats", a |-> 0])
            /\ UNCHANGED qend
       ELSE /\ qend' = Append(qend, EndTrackStatsCompute(qlin))
            /\ UNCHANGED <<qout, qlog>>
    /\ UNCHANGED <<qlin, qbuf, gvars, mvars, avars, cvars, svars>>

\* The rest of one of the calls in progress, lines 292-293: the cell is
\* cleared and the matrix the call computed at line 291 is returned
QuantEndClear ==
    /\ \E i \in 1..Len(qend) :
          /\ qlin' = EndTrackStatsClear(qlin)
          /\ qout' = [status |-> "ok", op |-> "end_track_stats",
                      imatrix |-> qend[i], y |-> <<>>]
          /\ qlog' = Append(qlog, [op |-> "end_track_stats", a |-> 0])
          /\ qend' = SubSeq(qend, 1, i - 1) \o SubSeq(qend, i + 1, Len(qend))
    /\ UNCHANGED <<qbuf, gvars, mvars, avars, cvars, svars>>

QuantTrackNext ==
    QuantBeginTrackStats \/ QuantForward \/ QuantEndCompute \/ QuantEndClear

(***************************************************************************)
(* The specifications: the router, the expert loop, Attention::forward     *)
(* under any caller, and two runs of the model that differ in one token.   *)
(***************************************************************************)
GateSpecInit ==
    GateInit /\ MoeIdle /\ AttnIdle /\ LayerIdle /\ SamplerIdle /\ QuantIdle

MoeSpecInit ==
    /\ gate = MoeGateNew(CHOOSE cfg \in Cfgs : cfg.topk_method = "Greedy", <<>>)
    /\ GateIdle
    /\ MoeIdle
    /\ AttnIdle
    /\ LayerIdle
    /\ SamplerIdle
    /\ QuantIdle

MoeForwardSpecInit ==
    /\ \E cfg \in MoeCfgs : \E shared \in BOOLEAN :
          /\ gate = MoeGateNew(cfg, [i \in 0..(cfg.n_routed_experts - 1) |-> 0])
          /\ moe = MoeNew(cfg, shared)
    /\ GateIdle
    /\ mcall = NoCall
    /\ my = <<>>
    /\ mi = 0
    /\ mpc = "idle"
    /\ mran = {}
    /\ mfwd = NoForward
    /\ AttnIdle
    /\ LayerIdle
    /\ SamplerIdle
    /\ QuantIdle

AttnSpecInit ==
    /\ gate = MoeGateNew(CHOOSE cfg \in Cfgs : cfg.topk_method = "Greedy", <<>>)
    /\ GateIdle
    /\ MoeIdle
    /\ AttnInit
    /\ LayerIdle
    /\ SamplerIdle
    /\ QuantIdle

CausalSpecInit ==
    /\ gate = MoeGateNew(CHOOSE cfg \in Cfgs : cfg.topk_method = "Greedy", <<>>)
    /\ GateIdle
    /\ MoeIdle
    /\ attn \in Attentions
    /\ acall = NoAttnCall
    /\ run = NewRun
    /\ twin = NewRun
    /\ altered \in 0..(MaxPos - 1)
    /\ LayerIdle
    /\ SamplerIdle
    /\ QuantIdle

LayerSpecInit ==
    /\ gate = MoeGateNew(CHOOSE cfg \in Cfgs : cfg.topk_method = "Greedy", <<>>)
    /\ GateIdle
    /\ MoeIdle
    /\ AttnIdle
    /\ LayerInit
    /\ SamplerIdle
    /\ QuantIdle

GateNewSpecInit ==
    GateNewInit /\ MoeIdle /\ AttnIdle /\ SamplerIdle /\ QuantIdle

AttnNewSpecInit ==
    /\ gate = MoeGateNew(CHOOSE cfg \in Cfgs : cfg.topk_method = "Greedy", <<>>)
    /\ GateIdle
    /\ MoeIdle
    /\ AttnNewInit
    /\ SamplerIdle
    /\ QuantIdle

SamplerSpecInit ==
    /\ gate = MoeGateNew(CHOOSE cfg \in Cfgs : cfg.topk_method = "Greedy", <<>>)
    /\ GateIdle
    /\ MoeIdle
    /\ AttnIdle
    /\ LayerIdle
    /\ SamplerInit
    /\ QuantIdle

QuantSpecInit ==
    /\ gate = MoeGateNew(CHOOSE cfg \in Cfgs : cfg.topk_method = "Greedy", <<>>)
    /\ GateIdle
    /\ MoeIdle
    /\ AttnIdle
    /\ LayerIdle
    /\ SamplerIdle
    /\ QuantInit

Spec == GateSpecInit /\ [][GateNext]_vars

SpecQuant == QuantSpecInit /\ [][QuantNext]_vars

QuantLoadSpecInit ==
    /\ gate = MoeGateNew(CHOOSE cfg \in Cfgs : cfg.topk_method = "Greedy", <<>>)
    /\ GateIdle
    /\ MoeIdle
    /\ AttnIdle
    /\ LayerIdle
    /\ SamplerIdle
    /\ QuantLoadInit

SpecQuantLoad == QuantLoadSpecInit /\ [][QuantLoadNext]_vars

QuantTrackSpecInit ==
    /\ gate = MoeGateNew(CHOOSE cfg \in Cfgs : cfg.topk_method = "Greedy", <<>>)
    /\ GateIdle
    /\ MoeIdle
    /\ AttnIdle
    /\ LayerIdle
    /\ SamplerIdle
    /\ QuantTrackInit

SpecQuantTrack == QuantTrackSpecInit /\ [][QuantTrackNext]_vars

SpecSampler == SamplerSpecInit /\ [][SamplerNext]_vars

SamplerPenaltySpecInit ==
    /\ gate = MoeGateNew(CHOOSE cfg \in Cfgs : cfg.topk_method = "Greedy", <<>>)
    /\ GateIdle
    /\ MoeIdle
    /\ AttnIdle
    /\ LayerIdle
    /\ SamplerPenaltyInit
    /\ QuantIdle

SpecSamplerPenalty == SamplerPenaltySpecInit /\ [][SamplerPenaltyNext]_vars

SamplerDrySpecInit ==
    /\ gate = MoeGateNew(CHOOSE cfg \in Cfgs : cfg.topk_method = "Greedy", <<>>)
    /\ GateIdle
    /\ MoeIdle
    /\ AttnIdle
    /\ LayerIdle
    /\ SamplerDryInit
    /\ QuantIdle

SpecSamplerDry == SamplerDrySpecInit /\ [][SamplerDryNext]_vars

SpecMoe == MoeSpecInit /\ [][MoeNext]_vars

SpecMoeForward == MoeForwardSpecInit /\ [][MoeForwardNext]_vars

SpecLayer == LayerSpecInit /\ [][LayerNext]_vars

SpecGateNew == GateNewSpecInit /\ [][GateNewNext]_vars

SpecAttnNew == AttnNewSpecInit /\ [][AttnNewNext]_vars

SpecAttn == AttnSpecInit /\ [][AttnForward]_vars

SpecCausal == CausalSpecInit /\ [][ModelForward]_vars

(***************************************************************************)
(* Properties of the router.                                               *)
(***************************************************************************)
Returned == gpc = "done" /\ gout.status = "ok"

Abs(x) == IF x < 0 THEN -x ELSE x

\* the group of expert i
GroupOf(g, i) == i \div (g.n_routed_experts \div g.n_group)

\* the groups group_mask keeps
KeptGroups == {grp \in DOMAIN gout.group_mask : gout.group_mask[grp] # 0}

\* every index scatter_add was given was in range (the sum of group_mask is
\* the number of additions made): the call had no undefined behaviour
ScatterInRange ==
    gate.topk_method = "GroupLimitedGreedy" =>
        SumFn(gout.group_mask, gate.n_group) = gate.topk_group

\* the rounding of top_k divisions and top_k multiplications
Eps(g) == g.top_k * (g.routed_scaling_factor \div 1000 + 2)

\* C1: under every policy and score function, for every input,
\* MoeGate::forward returns a routing decision that holds, for the token,
\* exactly top_k expert ids, pairwise distinct and each in
\* 0..n_routed_experts-1.
C1_TopKDistinctInRange ==
    gpc = "done" =>
        /\ gout.status = "ok"
        /\ Len(gout.topk_idx) = gate.top_k
        /\ Len(gout.topk_weight) = gate.top_k
        /\ \A j \in 1..Len(gout.topk_idx) :
              gout.topk_idx[j] \in 0..(gate.n_routed_experts - 1)
        /\ \A j, k \in 1..Len(gout.topk_idx) :
              j # k => gout.topk_idx[j] # gout.topk_idx[k]

\* C2: with norm_topk_prob and top_k > 1 the returned weights sum to 1.0
\* within epsilon, for every policy and every routed_scaling_factor.
C2_SumIsOne ==
    (Returned /\ gate.norm_topk_prob /\ gate.top_k > 1) =>
        Abs(SumSeq(gout.topk_weight) - 1000) <= Eps(gate)

\* C3: without normalisation (norm_topk_prob off, or top_k = 1) every returned
\* weight is the score of the expert at the returned index times
\* routed_scaling_factor, under all three policies (stated for the calls
\* without an out-of-range scatter index, whose behaviour is defined).
C3_WeightIsScaledScore ==
    (Returned /\ ScatterInRange /\ ~(gate.norm_topk_prob /\ gate.top_k > 1)) =>
        \A j \in 1..Len(gout.topk_idx) :
            gout.topk_weight[j] =
                Mul(Scores(gate, logits)[gout.topk_idx[j]], gate.routed_scaling_factor)

\* C4: under NoAuxTc and GroupLimitedGreedy, when the kept groups hold at
\* least top_k experts, no selected expert belongs to a group that group_mask
\* does not keep.
C4_SelectedInKeptGroups ==
    (/\ Returned
     /\ gate.topk_method \in {"NoAuxTc", "GroupLimitedGreedy"}
     /\ Cardinality(KeptGroups) * (gate.n_routed_experts \div gate.n_group)
            >= gate.top_k) =>
        \A j \in 1..Len(gout.topk_idx) :
            GroupOf(gate, gout.topk_idx[j]) \in KeptGroups

\* C9: under NoAuxTc the returned weights are the uncorrected scores at the
\* chosen indices (then normalised and scaled as for every policy): the
\* correction bias is not part of them.
C9_NoAuxTcWeightUncorrected ==
    (Returned /\ gate.topk_method = "NoAuxTc") =>
        gout.topk_weight =
            ScaleWeights(gate, Gather(Scores(gate, logits), gout.topk_idx))

C9_Witness ==
    /\ Returned
    /\ gate.topk_method = "NoAuxTc"
    /\ \E j \in 1..Len(gout.topk_idx) :
          Unwrap(gate.e_score_correction_bias)[gout.topk_idx[j]] # 0
    /\ \E i \in 0..(gate.n_routed_experts - 1) :
          Unwrap(gate.e_score_correction_bias)[i] = 0

\* the largest score of group grp
GroupMax(g, scores, grp) ==
    LET gsz == g.n_routed_experts \div g.n_group
    IN  MaxFn([j \in 0..(gsz - 1) |-> scores[grp * gsz + j]], gsz)

\* C10: under GroupLimitedGreedy the kept groups are the topk_group groups of
\* the largest per-group maximum score, the scores of the other groups are
\* zeroed, and the returned experts and weights are a top-k of these masked
\* scores (stated for the calls without an out-of-range scatter index).
C10_GroupLimitedGreedyRanksByGroupMax ==
    (Returned /\ ScatterInRange /\ gate.topk_method = "GroupLimitedGreedy") =>
        LET scores == Scores(gate, logits)
            masked == [i \in 0..(gate.n_routed_experts - 1) |->
                          IF GroupOf(gate, i) \in KeptGroups THEN scores[i] ELSE 0]
            chosen == {gout.topk_idx[j] : j \in 1..Len(gout.topk_idx)}
        IN  /\ Cardinality(KeptGroups) = gate.topk_group
            /\ \A kept \in KeptGroups :
                  \A other \in (0..(gate.n_group - 1)) \ KeptGroups :
                      GroupMax(gate, scores, kept) >= GroupMax(gate, scores, other)
            /\ \A i \in chosen :
                  \A o \in (0..(gate.n_routed_experts - 1)) \ chosen :
                      masked[i] >= masked[o]
            /\ gout.topk_weight = ScaleWeights(gate, Gather(masked, gout.topk_idx))

(***************************************************************************)
(* Properties of the expert loop.                                          *)
(***************************************************************************)
RECURSIVE SumSlots(_, _, _)
\* the sum over the slots 1..sl of token t of weight * expert(x_t)
SumSlots(call, t, sl) ==
    IF sl = 0 THEN 0
    ELSE call.topk_weight[t][sl] * Expert(call.topk_ids[t][sl], call.xs[t])
            + SumSlots(call, t, sl - 1)

\* C5: when moe_infer returns, the output row of every token is the sum, over
\* its top_k slots, of topk_weight[t,s] * expert_{topk_ids[t,s]}(x_t): every
\* (token, slot) pair is added exactly once.
C5_EveryTokenSlotOnce ==
    mpc = "done" => \A t \in Tokens(mcall) : my[t] = SumSlots(mcall, t, mcall.k)

C5_Witness ==
    /\ mpc = "done"
    /\ mcall.k = 2
    /\ mcall.topk_ids[0] = <<2, 0>>
    /\ mcall.topk_ids[1] = <<0, 0>>

\* some (token, slot) entry of topk_ids holds expert i
Assigned(call, i) ==
    \E t \in Tokens(call), sl \in 1..call.k : call.topk_ids[t][sl] = i

RECURSIVE SumSlotsOf(_, _, _, _)
\* the sum over the slots 1..sl of token t that hold an expert of the set
\* ran, of weight * expert(x_t)
SumSlotsOf(call, t, sl, ran) ==
    IF sl = 0 THEN 0
    ELSE (IF call.topk_ids[t][sl] \in ran
          THEN call.topk_weight[t][sl] * Expert(call.topk_ids[t][sl], call.xs[t])
          ELSE 0)
            + SumSlotsOf(call, t, sl - 1, ran)

\* C16: during a call of moe_infer the feed-forward of an expert the loop has
\* passed has run if and only if some (token, slot) entry of topk_ids holds
\* its index, and the output holds the terms of the experts that ran and
\* nothing else: a skipped expert contributes nothing.
C16_ExpertRunsIffAssigned ==
    (mpc \in {"loop", "done"} /\ mcall.rank = 2) =>
        /\ \A i \in 0..(moe.n_experts - 1) :
              i \in mran <=> (i < mi /\ Assigned(mcall, i))
        /\ \A t \in Tokens(mcall) : my[t] = SumSlotsOf(mcall, t, mcall.k, mran)

\* moe_infer returned after it skipped expert 1 and ran experts 0 and 2
C16_Witness ==
    /\ mpc = "done"
    /\ mran = {0, 2}
    /\ mi = 3

(***************************************************************************)
(* Properties of Attention::forward.                                       *)
(***************************************************************************)

\* C6: two runs of the model that differ only in the content of the token at
\* position altered return the same attention output at every position before
\* it, under the cache-append and under the paged backend.
C6_CausalMasking ==
    \A i \in 1..Len(run.outs) :
        (i - 1 < altered /\ i <= Len(twin.outs)) => run.outs[i] = twin.outs[i]

\* the last chunk held the altered token and a position before it; both runs
\* returned, and their outputs differ at the altered position
C6_Witness ==
    /\ Len(acall.xs) > 1
    /\ acall.offset < altered
    /\ altered < acall.offset + Len(acall.xs)
    /\ run.status = "ok"
    /\ twin.status = "ok"
    /\ Len(run.outs) > altered
    /\ Len(twin.outs) > altered
    /\ run.outs[altered + 1] # twin.outs[altered + 1]

\* C7: a call on an instance with a paged backend, without paged metadata and
\* without a mask, ends in the assertion failure: the paged kernel is not
\* invoked and no attention result is returned.
C7_PagedNoMetadataNoMaskPanics ==
    [][(attn.paged_attn /\ ~acall'.metadata /\ acall'.mask = None /\ run' # run) =>
          /\ run'.status = "panic"
          /\ run'.paged_calls = run.paged_calls
          /\ run'.outs = run.outs]_vars

C7_Witness ==
    /\ attn.paged_attn
    /\ ~acall.metadata
    /\ acall.mask = None
    /\ run.status = "panic"
    /\ run.paged_calls > 0

\* C8: the backend is the one fixed at construction.  With a paged backend no
\* forward changes the incremental KV cache; without one the paged backend is
\* never invoked and the cache holds the keys/values of every position of
\* the successful forwards exactly once, in order, whether or not paged
\* metadata was passed.
C8_OneBackend ==
    /\ attn.paged_attn => run.kv_cache = <<>>
    /\ ~attn.paged_attn =>
          /\ run.paged_calls = 0
          /\ run.blocks = <<>>
          /\ Len(run.kv_cache) = run.pos
          /\ \A i \in 1..Len(run.kv_cache) : run.kv_cache[i] = run.outs[i].q

C8_Witness ==
    /\ ~attn.paged_attn
    /\ acall.metadata
    /\ run.status = "ok"
    /\ Len(run.kv_cache) = MaxPos

(***************************************************************************)
(* Properties of Moe::forward and of the choices made at construction.     *)
(***************************************************************************)

\* the output the claim C11 names for token t: the token's single routing
\* weight times the expert's output, plus the shared experts' output
SingleExpertOutput(t) ==
    mcall.topk_weight[t][1] * Expert(0, mcall.xs[t])
        + (IF moe.shared_experts THEN 1000 * SharedExpert(mcall.xs[t]) ELSE 0)

\* C11: with a single routed expert and top_k = 1, once the gate has routed
\* the tokens, Moe::forward returns, for every token, the routing weight
\* times the expert's output plus the shared experts' output.
C11_SingleExpertEquivalence ==
    (/\ moe.n_experts = 1
     /\ gate.top_k = 1
     /\ mcall # NoCall
     /\ mfwd.pc \in {"ok", "err"})
    => /\ mfwd.pc = "ok"
       /\ \A t \in Tokens(mcall) : mfwd.y[t] = SingleExpertOutput(t)

\* layer_idx is a multiple of moe_layer_freq
IsMultiple(layer_idx, freq) == \E q \in 0..layer_idx : layer_idx = q * freq

\* C12: DecoderLayer::new builds the layer for every configuration, with the
\* MoE block if and only if routed experts are configured, layer_idx >=
\* first_k_dense_replace and layer_idx is a multiple of moe_layer_freq, and
\* every forward call runs the block that was built.
C12_MoeChoiceAtConstruction ==
    layer.pc \notin {"idle", "unbuilt"} =>
        /\ layer.pc = "built"
        /\ layer.moe_or_mlp = "Moe" <=>
              /\ layer.cfg.n_routed_experts # None
              /\ layer.layer_idx >= layer.cfg.first_k_dense_replace
              /\ IsMultiple(layer.layer_idx, layer.cfg.moe_layer_freq)
        /\ layer.moe_or_mlp \in {"Moe", "Mlp"}
        /\ \A c \in 1..Len(layer.used) : layer.used[c] = layer.moe_or_mlp

\* C13: a configuration whose n_group does not divide n_routed_experts is
\* rejected by MoeGate::new and never reaches MoeGate::forward.
C13_GroupCountRejectedAtLoad ==
    (/\ gnew.pc \notin {"idle", "unbuilt"}
     /\ gnew.cfg.n_routed_experts % gnew.cfg.n_group # 0)
    => /\ gnew.pc = "err"
       /\ gpc = "idle"

\* C14: under NoAuxTc, MoeGate::new fails when the checkpoint has no
\* e_score_correction_bias, and no gate without the bias returns a routing
\* decision from forward.
C14_MissingBiasIsFatal ==
    /\ (/\ gnew.pc \notin {"idle", "unbuilt"}
        /\ gnew.cfg.topk_method = "NoAuxTc"
        /\ "e_score_correction_bias" \notin gnew.vb) => gnew.pc = "err"
    /\ (/\ gpc = "done"
        /\ gate.topk_method = "NoAuxTc"
        /\ gate.e_score_correction_bias = None) => gout.status = "err"

\* MoeGate::new has failed for the missing bias alone
C14_Witness ==
    /\ gnew.pc = "err"
    /\ gnew.cfg.topk_method = "NoAuxTc"
    /\ gnew.vb = {"weight"}

\* C15: with the paged backend, a config whose v_head_dim exceeds
\* qk_nope_head_dim + qk_rope_head_dim is rejected by Attention::new, and
\* forward is never reached with it.
C15_HeadDimsRejectedAtConstruction ==
    (/\ anew.pc \notin {"idle", "unbuilt"}
     /\ attn.paged_attn
     /\ anew.cfg.v_head_dim > anew.cfg.qk_nope_head_dim + anew.cfg.qk_rope_head_dim)
    => /\ anew.pc = "err"
       /\ run.status = "none"

(***************************************************************************)
(* Claims about Sampler (SpecSampler).                                     *)
(***************************************************************************)
\* The call that returned was an argmax call: no temperature, not speculative
ArgmaxCall ==
    /\ sres.status # "none"
    /\ sampler.temperature = None
    /\ ~scall.sample_speculative

Penalized == ApplyFreqPrescPenalty(sampler, scall.logits, VocabSize, scall.context)

\* C17: with no temperature (None, or one below 1e-7 given to Sampler::new)
\* and sample_speculative = false, sample returns the token of the maximum
\* penalized logit, with logprob the log10 of that logit, with top_logprobs =
\* None when return_logprobs is false, whatever top_k, top_p and min_p are.
C17_ArgmaxWithoutTemperature ==
    /\ sampler.temperature = None \/ Unwrap(sampler.temperature) > 0
    /\ ArgmaxCall =>
          /\ (scall.context # <<>> /\ ~scall.return_logprobs) => sres.status = "ok"
          /\ sres.status = "ok" =>
                /\ \A j \in 0..(VocabSize - 1) : Penalized[j] <= Penalized[sres.token]
                /\ sres.logprob = Log10(Penalized[sres.token])
                /\ ~scall.return_logprobs => sres.top_logprobs = None
                /\ \A k \in TopKs, tp \in TopPs, mp \in MinPs :
                      Sample([sampler EXCEPT !.top_k = k, !.top_p = tp, !.min_p = mp],
                             scall) = Sample(sampler, scall)

C17_Witness ==
    /\ ArgmaxCall
    /\ sres.status = "ok"
    /\ sampler.top_k = 1 /\ sampler.top_p = 500 /\ sampler.min_p = 50
    /\ sampler.frequency_penalty # None
    /\ scall.logits[0] = 2000 /\ scall.logits[1] = 1000 /\ scall.context = <<0>>
    /\ sres.token = 1
    /\ sres.logprob = Log10(1000)
    /\ sres.top_logprobs = None

\* C18: with sample_speculative = true and no temperature, sample returns the
\* token of the maximum logit, with logprob the log10 of that token's value
\* and top_logprobs = None when return_logprobs is false, for every logits
\* vector and every top_k, top_p and min_p: the clamps of
\* sample_speculative_top_kp_min_p never remove the maximum token.
C18_SpeculativeKeepsMaximum ==
    (/\ sres.status = "ok"
     /\ sampler.temperature = None
     /\ scall.sample_speculative)
    => /\ \A j \in 0..(VocabSize - 1) : Penalized[j] <= Penalized[sres.token]
       /\ sres.logprob = Log10(Penalized[sres.token])
       /\ ~scall.return_logprobs => sres.top_logprobs = None

\* The call that returned took the non-speculative path with a temperature
\* and a top_p outside (0, 1)
MultinomialCall ==
    /\ sres.status # "none"
    /\ sampler.temperature # None
    /\ ~scall.sample_speculative
    /\ scall.context # <<>>
    /\ sampler.top_p <= 0 \/ sampler.top_p >= 1000

\* The softmax distribution of the call
Distribution ==
    SoftmaxOverTemperature(Penalized, VocabSize, Unwrap(sampler.temperature))

\* C19: in non-speculative sampling with a temperature, when top_p <= 0.0 or
\* top_p >= 1.0 no nucleus filtering is applied and the token is drawn by
\* multinomial sampling: the returned token has non-zero probability in the
\* softmax distribution after the top-k clamp, and its logprob is the log10
\* of that probability.
C19_NoNucleusOutsideUnitInterval ==
    MultinomialCall =>
        /\ sres.status # "err"
        /\ sres.status = "ok" =>
              \E p \in ArgSortLastDim(Distribution, VocabSize, FALSE) :
                 LET clamped == TopKClamp(Distribution, p, VocabSize, sampler.top_k)
                 IN  /\ clamped[sres.token] > 0
                     /\ clamped[sres.token] = Distribution[sres.token]
                     /\ sres.logprob = Log10(Distribution[sres.token])

C19_Witness ==
    /\ MultinomialCall
    /\ sres.status = "ok"
    /\ sampler.top_p = 0 /\ sampler.top_k = 0 /\ sampler.min_p = 50
    /\ scall.logits[0] = 2000 /\ scall.logits[1] = 1000
    /\ sampler.frequency_penalty = None /\ sampler.presence_penalty = None
    /\ sres.token = 1
    /\ sres.logprob = Log10(Distribution[1])

(***************************************************************************)
(* Claims about UnquantLinear (SpecQuant).                                 *)
(***************************************************************************)
\* C20: serialization round-trips.  The bytes of serialize are the version,
\* the ISQ type, the has-bias flag, the weight and then the bias if there is
\* one; deserialize on them succeeds and yields a layer with the same weight
\* and the same bias (present iff it was present); deserialize_ext_bias on
\* them yields a layer without bias and returns the bias separately.
C20_SerializeRoundTrips ==
    /\ qbuf # <<>> =>
          /\ SubSeq(qbuf, 1, 4) = U32LE(UQFF_VERSION)
          /\ qbuf[5] = QuantizedSerdeTypeUnquant
          /\ qbuf[6] = (IF qlin.b = None THEN 0 ELSE 1)
          /\ SubSeq(qbuf, 7, Len(qbuf)) =
                SerializeTensor(qlin.w)
                    \o (IF qlin.b = None THEN <<>> ELSE SerializeTensor(Unwrap(qlin.b)))
    /\ qout.op = "deserialize" =>
          /\ qout.status = "ok"
          /\ qout.layer.w = qlin.w
          /\ qout.layer.b = qlin.b
    /\ qout.op = "deserialize_ext_bias" =>
          /\ qout.status = "ok"
          /\ qout.layer.w = qlin.w
          /\ qout.layer.b = None
          /\ qout.bias = qlin.b

C20_Witness ==
    /\ qout.op = "deserialize_ext_bias"
    /\ qout.status = "ok"
    /\ qlin.w.dtype = "U32" /\ qlin.w.dims = <<2, 1>>
    /\ qlin.b # None
    /\ qout.bias # None
    /\ Unwrap(qout.bias).dims = <<2>>
    /\ Unwrap(qout.bias).elems = <<0, 255>>
    /\ qout.layer.w.elems = <<7, 66051>>

\* The fields of the header of the buffer, read from its bytes
BufMajor == qbuf[3] + 256 * qbuf[4]
BufIsqType == qbuf[5]

\* C21: deserialize and deserialize_ext_bias return an error, and construct
\* no layer, whenever the leading version is incompatible or the ISQ-type
\* byte is not the Unquant type; the version is checked before the type, and
\* both before any tensor data is read.
C21_HeaderChecksFirst ==
    qout.status # "none" =>
        /\ (Len(qbuf) >= 4 /\ BufMajor # UQFF_VERSION \div 65536) =>
              /\ qout.status = "err"
              /\ qout.err = "version"
              /\ qout.layer = NoLinear /\ qout.bias = None
              /\ qout.header = 4 /\ ~qout.tensors
        /\ (Len(qbuf) >= 5 /\ BufMajor = UQFF_VERSION \div 65536
                /\ BufIsqType # QuantizedSerdeTypeUnquant) =>
              /\ qout.status = "err"
              /\ qout.err = "isq_type"
              /\ qout.layer = NoLinear /\ qout.bias = None
              /\ qout.header = 5 /\ ~qout.tensors

C21_Witness ==
    /\ qout.op = "deserialize_ext_bias"
    /\ qout.status = "err"
    /\ qout.err = "version"
    /\ Len(qbuf) > 6
    /\ BufMajor = 1 + UQFF_VERSION \div 65536
    /\ BufIsqType = 2

\* The last call made on the layer, and whether begin_track_stats was called
\* before it
LastCall == qlog[Len(qlog)]
BegunBefore == \E i \in 1..(Len(qlog) - 1) : qlog[i].op = "begin_track_stats"

\* C22: in any sequence of begin_track_stats, forward and end_track_stats
\* calls, end_track_stats returns an error if begin_track_stats was never
\* called and otherwise returns the importance matrix; forward feeds the
\* statistics only when tracking has been begun, and tracking stays enabled
\* after end_track_stats, so a later forward still runs and feeds them.
C22_TrackStats ==
    qlog # <<>> =>
        /\ LastCall.op = "end_track_stats" =>
              IF BegunBefore
              THEN qout.status = "ok" /\ qout.imatrix # None /\ qlin.stats # None
              ELSE qout.status = "err"
        /\ LastCall.op = "forward" =>
              IF BegunBefore
              THEN /\ qout = ForwardOutput(qlin, LastCall.a)
                   /\ qlin.stats # None /\ Unwrap(qlin.stats) # None
              ELSE qlin.stats = None

\* c[j]: the occurrences of token j in the context of the call
Occurrences(j) == Cardinality({i \in DOMAIN scall.context : scall.context[i] = j})

\* C23: with a frequency or a presence penalty configured,
\* apply_freq_presc_penalty changes logit j to logit[j] - c[j] *
\* frequency_penalty - (c[j] > 0 ? 1 : 0) * presence_penalty; context tokens
\* with id >= the vocabulary size are ignored; with neither penalty
\* configured the logits are unchanged.
C23_FreqPresencePenalty ==
    sres.status = "ok" =>
        /\ DOMAIN sres.logits = 0..(VocabSize - 1)
        /\ IF sampler.frequency_penalty = None /\ sampler.presence_penalty = None
           THEN sres.logits = scall.logits
           ELSE \A j \in 0..(VocabSize - 1) :
                  sres.logits[j] =
                      scall.logits[j]
                        - Occurrences(j)
                            * (IF sampler.frequency_penalty = None THEN 0
                               ELSE Unwrap(sampler.frequency_penalty))
                        - (IF Occurrences(j) > 0 THEN 1 ELSE 0)
                            * (IF sampler.presence_penalty = None THEN 0
                               ELSE Unwrap(sampler.presence_penalty))

C23_Witness ==
    /\ sres.status = "ok"
    /\ sampler.frequency_penalty = Some(1000)
    /\ sampler.presence_penalty = Some(2000)
    /\ scall.context = <<1, VocabSize, 1, 0>>
    /\ scall.logits[0] = 2000 /\ scall.logits[1] = 2000
    /\ sres.logits[0] = -1000
    /\ sres.logits[1] = -2000

\* The last ids of the non-empty encodings of the configured breakers
BreakerTokens ==
    {scall.new.encodings[k][Len(scall.new.encodings[k])] :
        k \in {k \in DOMAIN scall.new.encodings : scall.new.encodings[k] # <<>>}}

\* C24: for a Sampler built with DRY parameters and a tokenizer, every
\* sequence breaker whose encoding (prefixed with 'a') is non-empty
\* contributes the last id of that encoding to the breaker set, so the DRY
\* penalty is never applied to a sequence-breaker token.
C24_BreakersAreLastIds ==
    sres.status \in {"new", "ok"} =>
        /\ BreakerTokens \subseteq Unwrap(sampler.dry_params).sequence_breakers
        /\ sres.status = "ok" =>
              \A tok \in BreakerTokens \cap 0..(VocabSize - 1) :
                  sres.logits[tok] = scall.logits[tok]

\* C25: in non-speculative sampling with a temperature and 0 < min_p < 1,
\* the sampled token has probability strictly greater than min_p times the
\* maximum token probability, for every top_k and every top_p (top_p <= 0
\* and top_p >= 1 included).
C25_MinPFloor ==
    (/\ sres.status = "ok"
     /\ sampler.temperature # None
     /\ ~scall.sample_speculative
     /\ sampler.min_p > 0 /\ sampler.min_p < 1000)
    => Distribution[sres.token] * 1000
          > sampler.min_p * MaxFn(Distribution, VocabSize)


\* C26: after every Attention::forward call that returns Ok, with or without
\* a mask and for every sequence length the model hands it, the tensor
\* handed to the output projection holds at (position s, column
\* h * v_head_dim + d) the attention output of head h at position s,
\* dimension d
C26_ProjectionLayout ==
    (run.status = "ok" /\ acall.xs # <<>>)
    => /\ run.proj.shape = <<Len(acall.xs), NumAttentionHeads * attn.v_head_dim>>
       /\ \A s \in 0..(Len(acall.xs) - 1), h \in 0..(NumAttentionHeads - 1),
             d \in 0..(attn.v_head_dim - 1) :
             run.proj.at[<<s, h * attn.v_head_dim + d>>] = [h |-> h, s |-> s, d |-> d]

\* a call without a mask has returned Ok after a masked call of more than one
\* position, on a layer with more than one head and v_head_dim > 1
C26_Witness ==
    /\ run.status = "ok"
    /\ acall.mask = None
    /\ acall.offset > 1
    /\ Len(run.outs) = acall.offset + Len(acall.xs)
    /\ run.proj.shape = <<1, NumAttentionHeads * attn.v_head_dim>>
    /\ NumAttentionHeads > 1 /\ attn.v_head_dim > 1

============================================================================
